---- MODULE Spec2Model ----
(***************************************************************************)
(* The data-warden backend: the JSON-RPC request loop (one goroutine per   *)
(* request), the connection registry, the metadata cache with per-entry    *)
(* TTL and the running-query registry with cooperative cancellation.       *)
(*                                                                         *)
(* A task slot is a request goroutine spawned by main's loop; a slot whose *)
(* goroutine has written its response and ended is reused by a later       *)
(* request.  A handle is a *connection.Connection, numbered in the order   *)
(* NewConnection returns them.  The context an executeQuery call creates   *)
(* is named by the slot of its goroutine.  The database driver is          *)
(* external: each of its calls succeeds or fails nondeterministically, and *)
(* fails on a handle that has been closed.  Time is in seconds.            *)
(***************************************************************************)
EXTENDS Integers, Sequences, FiniteSets, TLC

VARIABLES
    nreq,            \* request lines read by main's loop so far
    pc,              \* per task: the place its goroutine is at
    req,             \* per task: the request it handles
    loc,             \* per task: the handler's local variables
    out,             \* the response line written to stdout last
    connections,     \* Server.connections: connection id -> handle
    handles,         \* every handle opened so far: [id, open]
    cache,           \* Server.cache: key -> cacheEntry
    runningQueries,  \* Server.runningQueries: request id -> queryContext
    cancelled,       \* the contexts in use whose cancel function has been called
    now,             \* the wall clock (time.Now), in seconds
    ticks,           \* how many times the clock has advanced
    main,            \* the place main's loop is at, or how the process ended
    resp,            \* per writer: the response it is sending
    writeMutex,      \* writeMutex: the writer inside sendResponse, if any
    writer,          \* the bufio.Writer's buffer
    stdout,          \* what has been written to os.Stdout
    locks,           \* s.mu, s.cacheMu, s.runningQueriesMu: who holds them
    script,          \* per task: the lock operations its handler has yet to do
    process,         \* BackendClient.process: "running", or "null"
    child,           \* the backend process the client spawned
    requestIdCounter, \* BackendClient.requestIdCounter
    pendingRequests, \* BackendClient.pendingRequests: the ids it has entries for
    promises,        \* per request id: the state of the promise returned
    writing,         \* the stdin writes whose callback has not run
    inbox,           \* the request lines the backend has read and not answered
    pipe             \* the response lines on the backend's stdout, unread

vars == <<nreq, pc, req, loc, out, connections, handles, cache,
          runningQueries, cancelled, now, ticks,
          main, resp, writeMutex, writer, stdout, locks, script,
          process, child, requestIdCounter, pendingRequests, promises,
          writing, inbox, pipe>>

---------------------------------------------------------------------------
(* Bounds of the model. *)

\* request goroutines alive at the same time
MaxInFlight == 2
\* request lines the client sends in a run of the query pipeline and of the
\* connection registry
MaxRequests == 3
\* request lines the client sends in a run over every handle-using method
MaxHandleRequests == 4
\* rows a query's result set delivers at most
MaxRows == 1
\* clock advances in a run
MaxTicks == 2
\* the largest limit and the largest offset of a query
MaxLimit == 2
MaxOffset == 2
\* columns a result set has at most
MaxCols == 2

Tasks == 1..MaxInFlight

\* The amounts the clock advances by: they reach 30 s, 31 s, 300 s and 301 s
\* after a cache write.
TickSteps == {1, 30, 300}

\* Inputs of the client.
ConnIds == {"c1"}
ReqIds == {"r1", "r2"}
UserDatabases == {"app"}
\* handleListAllTables: systemDatabases
SystemDatabases == {"information_schema", "mysql", "performance_schema", "sys"}
Snapshots == {"s1", "s2"}

---------------------------------------------------------------------------
(* Program constants. *)

\* getFromCache: ttl = 30 * time.Second when the entry's ttl is 0
DefaultTTL == 30
\* handleListAllTables: setCacheWithTTL(cacheKey, allTables, 5*time.Minute)
AllTablesTTL == 300
\* protocol.InternalError
InternalError == -32603
\* protocol.ParseError, MethodNotFound, InvalidParams
ParseError == -32700
MethodNotFound == -32601
InvalidParams == -32602

---------------------------------------------------------------------------
(* Maps. *)

EmptyMap == [k \in {} |-> k]
Put(f, k, v) == [x \in DOMAIN f \cup {k} |-> IF x = k THEN v ELSE f[x]]
Del(f, k) == [x \in DOMAIN f \ {k} |-> f[x]]

---------------------------------------------------------------------------
(* Requests, locals and responses. *)

NoHandle == 0
NoCtx == 0

\* params is "ok" when the handler's json.Unmarshal of the parameters
\* succeeds; limit is "unset" for executeQuery's limit 0.
Request(m, id, c, r, db) ==
    [method |-> m, id |-> id, connectionId |-> c, requestId |-> r,
     database |-> db, sql |-> IF m = "executeQuery" THEN "SELECT 1" ELSE "",
     params |-> "ok", limit |-> "unset"]

NoRequest == Request("", "", "", "", "")

\* The requests a client sends with its methods in M: a connection id for
\* the methods that take one, a database for listTables, the request id to
\* cancel for cancelQuery.  The JSON-RPC id matters for executeQuery, whose
\* id is the cancellation key.
RequestsOf(M) ==
    {Request(m, IF m = "executeQuery" THEN id ELSE "r0", c, "", "") :
        m \in M \cap {"connect", "disconnect", "healthCheck", "listDatabases",
                      "listAllTables", "listColumns", "executeQuery",
                      "testConnection"},
        id \in ReqIds, c \in ConnIds}
    \cup {Request("listTables", "r0", c, "", db) :
            c \in IF "listTables" \in M THEN ConnIds ELSE {},
            db \in UserDatabases}
    \cup {Request("cancelQuery", "r0", "", r, "") :
            r \in IF "cancelQuery" \in M THEN ReqIds ELSE {}}
    \cup {Request("ping", "r0", "", "", "") : m \in M \cap {"ping"}}

\* A metadata value: what the backend listed, as pairs <<what, snapshot>>.
NoData == {}

\* h: conn; qctx: handleCancelQuery's queryCtx.cancel; nrows:
\* len(result.Rows); data: the value fetched from the backend.
NoLocals == [h |-> NoHandle, qctx |-> NoCtx, nrows |-> 0, data |-> NoData]

\* What a handler returns.  response.Result = result: value names the
\* result's shape, data is a metadata listing, rows is len(result.Rows).
\* from and age are not on the wire: they tell whether a metadata listing
\* came from the cache or from the backend, and how old the cache entry
\* served was.
Listing(value, data, from, age) ==
    [kind |-> "result", code |-> 0, message |-> "", cause |-> "",
     value |-> value, data |-> data, rows |-> 0, from |-> from, age |-> age]

Result(value, rows) ==
    [kind |-> "result", code |-> 0, message |-> "", cause |-> "",
     value |-> value, data |-> NoData, rows |-> rows, from |-> "", age |-> 0]

\* response.Error = &protocol.Error{Code: InternalError, Message: err.Error()}
\* The message is the handler's format string; cause is the wrapped error.
Error(message, cause) ==
    [kind |-> "error", code |-> InternalError, message |-> message,
     cause |-> cause, value |-> "", data |-> NoData, rows |-> 0, from |-> "",
     age |-> 0]

\* The response line to request r with what the handler returned: the line
\* carries r.id; the request is kept beside it to tell what it answers.
Response(r, v) ==
    [req |-> r, kind |-> v.kind, code |-> v.code, message |-> v.message,
     cause |-> v.cause, value |-> v.value, data |-> v.data, rows |-> v.rows,
     from |-> v.from, age |-> v.age]

NoResponse == Response(NoRequest, [kind |-> "none", code |-> 0, message |-> "",
                                   cause |-> "", value |-> "", data |-> NoData,
                                   rows |-> 0, from |-> "", age |-> 0])

---------------------------------------------------------------------------
(* The output stream and the locks. *)

\* main writes the parse-error responses itself; every other response is
\* written by the goroutine of its request.
Main == 0
Writers == Tasks \cup {Main}
NoWriter == -1

\* A response line: the id, result or error, the error's code and message,
\* and the wrapped error.  n is not on the wire: it numbers the input line
\* the response answers.
Line(id, kind, code, message, cause, n) ==
    [id |-> id, kind |-> kind, code |-> code, message |-> message,
     cause |-> cause, n |-> n]
NoLine == Line("", "none", 0, "", "", 0)

Locks == {"mu", "cacheMu", "runningQueriesMu"}
\* A sync.RWMutex: the task holding it for writing (0 for none) and the
\* tasks holding it for reading.
Unlocked == [w |-> 0, r |-> {}]

---------------------------------------------------------------------------
(* The extension's client once start() has spawned the backend: no request *)
(* sent yet.                                                               *)

ClientInit ==
    /\ process = "running"
    /\ child = "alive"
    /\ requestIdCounter = 0
    /\ pendingRequests = {}
    /\ promises = EmptyMap
    /\ writing = {}
    /\ inbox = {}
    /\ pipe = {}

---------------------------------------------------------------------------
(* The state after NewServer and before the loop reads its first line. *)

Init ==
    /\ nreq = 0
    /\ pc = [t \in Tasks |-> "idle"]
    /\ req = [t \in Tasks |-> NoRequest]
    /\ loc = [t \in Tasks |-> NoLocals]
    /\ out = NoResponse
    /\ connections = EmptyMap
    /\ handles = <<>>
    /\ cache = EmptyMap
    /\ runningQueries = EmptyMap
    /\ cancelled = {}
    /\ now = 0
    /\ ticks = 0
    /\ main = "scan"
    /\ resp = [w \in Writers |-> NoLine]
    /\ writeMutex = NoWriter
    /\ writer = <<>>
    /\ stdout = <<>>
    /\ locks = [l \in Locks |-> Unlocked]
    /\ script = [t \in Tasks |-> <<>>]
    /\ ClientInit

\* What the handlers share.
shared == <<connections, handles, cache, runningQueries, cancelled>>
clock == <<now, ticks>>
\* main's loop and the output stream.
loop == <<main, resp, writeMutex, writer, stdout>>
\* The three locks of Server.
locking == <<locks, script>>
\* The extension's BackendClient and the pipes to the backend.
frontend == <<process, child, requestIdCounter, pendingRequests, promises,
              writing, inbox, pipe>>

\* The process has not ended: main has neither returned nor been taken
\* down by log.Fatalf, by a panic or by a termination signal.
Running == main \notin {"exited", "fatal", "crashed", "killed"}

\* The handler of task t returns v: HandleRequest builds the response,
\* sendResponse writes its line and the goroutine ends.
Return(t, v) ==
    /\ Running
    /\ UNCHANGED <<loop, locking, frontend>>
    /\ pc' = [pc EXCEPT ![t] = "idle"]
    /\ req' = [req EXCEPT ![t] = NoRequest]
    /\ loc' = [loc EXCEPT ![t] = NoLocals]
    /\ out' = Response(req[t], v)

\* Task t moves to place p with locals l.
Goto(t, p, l) ==
    /\ Running
    /\ UNCHANGED <<loop, locking, frontend>>
    /\ pc' = [pc EXCEPT ![t] = p]
    /\ loc' = [loc EXCEPT ![t] = l]
    /\ UNCHANGED <<req, out>>

\* A driver call on handle h can succeed only while h is open.
DriverOutcomes(h) == IF handles[h].open THEN {TRUE, FALSE} ELSE {FALSE}

---------------------------------------------------------------------------
(* main's loop: scanner.Scan, json.Unmarshal, go func(req).  HandleRequest *)
(* switches on req.Method to the handler.                                  *)

\* A slot is free when its goroutine has ended and no cancelQuery still
\* holds the cancel function of the context it named.
Free(t) == pc[t] = "idle" /\ \A u \in Tasks : loc[u].qctx # t

\* The loop reads one of the request lines in R and starts its goroutine.
ReceiveFrom(R, max) ==
    /\ main = "scan"
    /\ nreq < max
    /\ \E t \in Tasks :
        /\ Free(t)
        /\ \A u \in Tasks : Free(u) => t <= u
        /\ \E r \in R :
            /\ req' = [req EXCEPT ![t] = r]
            /\ pc' = [pc EXCEPT ![t] = r.method]
    /\ nreq' = nreq + 1
    /\ UNCHANGED <<loc, out, shared, clock, loop, locking, frontend>>

Receive(M, max) == ReceiveFrom(RequestsOf(M), max)

\* The clock advances.
Tick ==
    /\ ticks < MaxTicks
    /\ \E d \in TickSteps : now' = now + d
    /\ ticks' = ticks + 1
    /\ UNCHANGED <<nreq, pc, req, loc, out, shared, loop, locking, frontend>>

---------------------------------------------------------------------------
(* HandleRequest's case "ping" and handleTestConnection *)

\* Ping that answers only when no query is executing.
PingAfterQueries(t) ==
    /\ pc[t] = "ping"
    /\ \A u \in Tasks : pc[u] \notin {"eq_precheck", "eq_wait", "eq_next", "eq_rowcheck"}
    /\ Return(t, Result("ok", 0))
    /\ UNCHANGED <<nreq, shared, clock>>

\* response.Result = map[string]string{"status": "ok"}
Ping(t) ==
    /\ pc[t] = "ping"
    /\ Return(t, Result("ok", 0))
    /\ UNCHANGED <<nreq, shared, clock>>

\* connection.NewConnection; a failure is reported in a result with
\* Success: false, not as an error.
TestConnectionOpen(t) ==
    /\ pc[t] = "testConnection"
    /\ \E ok \in BOOLEAN :
        IF ok
        THEN /\ handles' = Append(handles, [id |-> req[t].connectionId, open |-> TRUE])
             /\ Goto(t, "test_version", [loc[t] EXCEPT !.h = Len(handles) + 1])
        ELSE /\ handles' = handles
             /\ Return(t, Result("test failed", 0))
    /\ UNCHANGED <<nreq, connections, cache, runningQueries, cancelled, clock>>

\* TestConnectionVersion that closes the handle only after a version.
TestConnectionVersionLeak(t) ==
    /\ pc[t] = "test_version"
    /\ \E ok \in BOOLEAN :
        /\ handles' = IF ok THEN [handles EXCEPT ![loc[t].h].open = FALSE]
                            ELSE handles
        /\ Return(t, Result(IF ok THEN "test successful" ELSE "test failed", 0))
    /\ UNCHANGED <<nreq, connections, cache, runningQueries, cancelled, clock>>

\* conn.GetVersion(); the deferred conn.Close() runs on both returns.
TestConnectionVersion(t) ==
    /\ pc[t] = "test_version"
    /\ handles' = [handles EXCEPT ![loc[t].h].open = FALSE]
    /\ \E ok \in BOOLEAN :
        Return(t, Result(IF ok THEN "test successful" ELSE "test failed", 0))
    /\ UNCHANGED <<nreq, connections, cache, runningQueries, cancelled, clock>>

---------------------------------------------------------------------------
(* handleConnect *)

\* connection.NewConnection: sql.Open, db.Ping.  A failed ping closes the
\* handle before NewConnection returns the error, so no handle is left.
ConnectOpen(t) ==
    /\ pc[t] = "connect"
    /\ \E ok \in BOOLEAN :
        IF ok
        THEN /\ handles' = Append(handles, [id |-> req[t].connectionId, open |-> TRUE])
             /\ Goto(t, "connect_register", [loc[t] EXCEPT !.h = Len(handles) + 1])
        ELSE /\ handles' = handles
             /\ Return(t, Error("failed to connect to database", "driver"))
    /\ UNCHANGED <<nreq, connections, cache, runningQueries, cancelled, clock>>

\* ConnectRegister that does not close the connection it replaces.
ConnectRegisterLeak(t) ==
    /\ pc[t] = "connect_register"
    /\ connections' = Put(connections, req[t].connectionId, loc[t].h)
    /\ Return(t, Result("success", 0))
    /\ UNCHANGED <<nreq, handles, cache, runningQueries, cancelled, clock>>

\* s.mu.Lock(); close the existing connection if any; s.connections[id] = conn
ConnectRegister(t) ==
    /\ pc[t] = "connect_register"
    /\ LET id == req[t].connectionId IN
        /\ handles' = IF id \in DOMAIN connections
                      THEN [handles EXCEPT ![connections[id]].open = FALSE]
                      ELSE handles
        /\ connections' = Put(connections, id, loc[t].h)
    /\ Return(t, Result("success", 0))
    /\ UNCHANGED <<nreq, cache, runningQueries, cancelled, clock>>

---------------------------------------------------------------------------
(* connection.NewConnection step by step, as handleConnect and             *)
(* handleTestConnection call it, with the errors it returns.               *)

\* What makes NewConnection fail before it has a handle (config.Type is
\* not "mysql", sql.Open fails) and what db.Ping's error can contain.
OpenFailures == {"unsupported type", "sql.Open"}
PingFailures == {"connection refused", "Access denied", "Unknown database",
                 "timeout", "driver"}

\* The error NewConnection returns: the strings.Contains chain on the
\* ping's error, with "failed to connect to database: %w" for the rest.
NewConnectionError(cause) ==
    CASE cause = "unsupported type" -> "unsupported database type"
      [] cause = "sql.Open" -> "failed to connect to MySQL"
      [] cause = "connection refused" -> "connection refused"
      [] cause = "Access denied" -> "access denied"
      [] cause = "Unknown database" -> "unknown database"
      [] cause = "timeout" -> "connection timeout"
      [] OTHER -> "failed to connect to database"

\* NewConnectionFailed that makes the failure an error for both callers.
NewConnectionFailedAsError(t, cause) ==
    Return(t, Error(NewConnectionError(cause), cause))

\* NewConnection has returned an error: handleConnect returns it, and
\* HandleRequest makes it the response's error; handleTestConnection
\* returns a result with Success: false and Message: err.Error().
NewConnectionFailed(t, cause) ==
    IF req[t].method = "connect"
    THEN Return(t, Error(NewConnectionError(cause), cause))
    ELSE Return(t, [Result("test failed", 0) EXCEPT
                        !.message = NewConnectionError(cause), !.cause = cause])

\* json.Unmarshal(params, &config) fails in one of the two handlers.
ConfigDecodeFailed(t) ==
    /\ pc[t] \in {"connect", "testConnection"}
    /\ req[t].params # "ok"
    /\ Return(t, Error("invalid parameters", req[t].params))
    /\ UNCHANGED <<nreq, shared, clock>>

\* The type check and sql.Open: the handle exists from here on.
NewConnectionOpen(t) ==
    /\ pc[t] \in {"connect", "testConnection"}
    /\ req[t].params = "ok"
    /\ \/ /\ handles' = Append(handles, [id |-> req[t].connectionId, open |-> TRUE])
          /\ Goto(t, "nc_ping", [loc[t] EXCEPT !.h = Len(handles) + 1])
       \/ /\ handles' = handles
          /\ \E cause \in OpenFailures : NewConnectionFailed(t, cause)
    /\ UNCHANGED <<nreq, connections, cache, runningQueries, cancelled, clock>>

\* NewConnectionPing that leaves the handle open when the ping fails.
NewConnectionPingLeak(t) ==
    /\ pc[t] = "nc_ping"
    /\ \/ Goto(t, IF req[t].method = "connect" THEN "connect_register"
                                               ELSE "test_version", loc[t])
       \/ \E cause \in PingFailures : NewConnectionFailed(t, cause)
    /\ UNCHANGED <<nreq, shared, clock>>

\* db.Ping(): on an error db.Close() and the error; otherwise the caller
\* has its *Connection.
NewConnectionPing(t) ==
    /\ pc[t] = "nc_ping"
    /\ \/ /\ handles' = handles
          /\ Goto(t, IF req[t].method = "connect" THEN "connect_register"
                                                  ELSE "test_version", loc[t])
       \/ /\ handles' = [handles EXCEPT ![loc[t].h].open = FALSE]
          /\ \E cause \in PingFailures : NewConnectionFailed(t, cause)
    /\ UNCHANGED <<nreq, connections, cache, runningQueries, cancelled, clock>>

---------------------------------------------------------------------------
(* handleDisconnect: under s.mu, close the handle and delete the id. *)

\* strings.HasPrefix as invalidateCache spells it:
\* len(key) >= len(prefix) && key[:len(prefix)] == prefix
HasPrefix(key, prefix) ==
    Len(key) >= Len(prefix) /\ SubSeq(key, 1, Len(prefix)) = prefix

\* invalidateCache: delete every entry whose key starts with prefix.  No
\* handler calls it.
invalidateCache(prefix) ==
    cache' = [k \in {k \in DOMAIN cache : ~HasPrefix(k, prefix)} |-> cache[k]]

\* Disconnect that invalidates the database listing of the connection.
DisconnectInvalidatingPrefix(t) ==
    /\ pc[t] = "disconnect"
    /\ LET id == req[t].connectionId IN
        IF id \notin DOMAIN connections
        THEN /\ Return(t, Error("connection not found", id))
             /\ UNCHANGED <<connections, handles, cache>>
        ELSE /\ handles' = [handles EXCEPT ![connections[id]].open = FALSE]
             /\ connections' = Del(connections, id)
             /\ invalidateCache("listDatabases:" \o id)
             /\ Return(t, Result("success", 0))
    /\ UNCHANGED <<nreq, runningQueries, cancelled, clock>>

\* Disconnect that also drops the cache entries of the connection.
DisconnectInvalidating(t) ==
    /\ pc[t] = "disconnect"
    /\ LET id == req[t].connectionId IN
        IF id \notin DOMAIN connections
        THEN /\ Return(t, Error("connection not found", id))
             /\ UNCHANGED <<connections, handles, cache>>
        ELSE /\ handles' = [handles EXCEPT ![connections[id]].open = FALSE]
             /\ connections' = Del(connections, id)
             /\ cache' = EmptyMap
             /\ Return(t, Result("success", 0))
    /\ UNCHANGED <<nreq, runningQueries, cancelled, clock>>

\* Disconnect that takes an unknown id for already disconnected.
DisconnectIdempotent(t) ==
    /\ pc[t] = "disconnect"
    /\ LET id == req[t].connectionId IN
        IF id \notin DOMAIN connections
        THEN /\ Return(t, Result("success", 0))
             /\ UNCHANGED <<connections, handles>>
        ELSE /\ handles' = [handles EXCEPT ![connections[id]].open = FALSE]
             /\ connections' = Del(connections, id)
             /\ Return(t, Result("success", 0))
    /\ UNCHANGED <<nreq, cache, runningQueries, cancelled, clock>>

Disconnect(t) ==
    /\ pc[t] = "disconnect"
    /\ LET id == req[t].connectionId IN
        IF id \notin DOMAIN connections
        THEN /\ Return(t, Error("connection not found", id))
             /\ UNCHANGED <<connections, handles>>
        ELSE /\ handles' = [handles EXCEPT ![connections[id]].open = FALSE]
             /\ connections' = Del(connections, id)
             /\ Return(t, Result("success", 0))
    /\ UNCHANGED <<nreq, cache, runningQueries, cancelled, clock>>

---------------------------------------------------------------------------
(* getConnection: s.connections[id] under the read lock; nil when absent. *)

getConnection(id) ==
    IF id \in DOMAIN connections THEN connections[id] ELSE NoHandle

\* conn := s.getConnection(id); if conn == nil { return "connection not
\* found" }; otherwise the handler goes on at place p with the handle.
Lookup(t, p) ==
    LET conn == getConnection(req[t].connectionId) IN
    /\ IF conn = NoHandle
       THEN Return(t, Error("connection not found", req[t].connectionId))
       ELSE Goto(t, p, [loc[t] EXCEPT !.h = conn])
    /\ UNCHANGED <<nreq, shared, clock>>

---------------------------------------------------------------------------
(* handleHealthCheck and handleListColumns: lookup, then one driver call. *)

HealthCheckLookup(t) ==
    /\ pc[t] = "healthCheck"
    /\ Lookup(t, "health_ping")

\* conn.HealthCheck: db.PingContext
HealthCheckPing(t) ==
    /\ pc[t] = "health_ping"
    /\ \E ok \in DriverOutcomes(loc[t].h) :
        IF ok THEN Return(t, Result("healthy", 0))
              ELSE Return(t, Error("health check failed", "driver"))
    /\ UNCHANGED <<nreq, shared, clock>>

ListColumnsLookup(t) ==
    /\ pc[t] = "listColumns"
    /\ Lookup(t, "columns_query")

\* conn.ListColumns: SHOW FULL COLUMNS
ListColumnsQuery(t) ==
    /\ pc[t] = "columns_query"
    /\ \E ok \in DriverOutcomes(loc[t].h) :
        IF ok THEN Return(t, Result("columns", 0))
              ELSE Return(t, Error("failed to list columns", "driver"))
    /\ UNCHANGED <<nreq, shared, clock>>

---------------------------------------------------------------------------
(* The metadata cache. *)

\* getFromCache that rejects an entry already at its ttl.
getFromCacheOffByOne(key) ==
    IF key \notin DOMAIN cache
    THEN [data |-> NoData, ok |-> FALSE]
    ELSE LET entry == cache[key]
             ttl == IF entry.ttl = 0 THEN DefaultTTL ELSE entry.ttl
         IN IF now - entry.timestamp >= ttl
            THEN [data |-> NoData, ok |-> FALSE]
            ELSE [data |-> entry.data, ok |-> TRUE]

\* getFromCache: the entry's data and true, or nil and false when there is
\* no entry or time.Since(entry.timestamp) > ttl, with ttl = 30 s for 0
getFromCache(key) ==
    IF key \notin DOMAIN cache
    THEN [data |-> NoData, ok |-> FALSE]
    ELSE LET entry == cache[key]
             ttl == IF entry.ttl = 0 THEN DefaultTTL ELSE entry.ttl
         IN IF now - entry.timestamp > ttl
            THEN [data |-> NoData, ok |-> FALSE]
            ELSE [data |-> entry.data, ok |-> TRUE]

\* setCacheWithTTL that keeps the entry a key already has.
setCacheWithTTLKeepFirst(key, data, ttl) ==
    cache' = IF key \in DOMAIN cache THEN cache
             ELSE Put(cache, key, [data |-> data, timestamp |-> now, ttl |-> ttl])

\* setCacheWithTTL: s.cache[key] = cacheEntry{data, time.Now(), ttl}
setCacheWithTTL(key, data, ttl) ==
    cache' = Put(cache, key, [data |-> data, timestamp |-> now, ttl |-> ttl])

\* setCache: setCacheWithTTL(key, data, 0)
setCache(key, data) == setCacheWithTTL(key, data, 0)

\* cacheKey := fmt.Sprintf("listDatabases:%s", id), "listTables:%s:%s",
\* "listAllTables:%s"
cacheKey(r) ==
    IF r.method = "listTables"
    THEN "listTables:" \o r.connectionId \o ":" \o r.database
    ELSE r.method \o ":" \o r.connectionId

\* CacheOrLookup that never consults the cache.
LookupUncached(t, p) == Lookup(t, p)

\* A cached listing is returned at once; otherwise the handler looks the
\* connection up and goes on at place p.
CacheOrLookup(t, p) ==
    LET key == cacheKey(req[t])
        cached == getFromCache(key)
    IN IF cached.ok
       THEN /\ Return(t, Listing(req[t].method, cached.data, "cache",
                                 now - cache[key].timestamp))
            /\ UNCHANGED <<nreq, shared, clock>>
       ELSE Lookup(t, p)

\* The handler stores the listing it fetched and returns it.
StoreAndReturn(t, set) ==
    /\ set
    /\ Return(t, Listing(req[t].method, loc[t].data, "backend", 0))
    /\ UNCHANGED <<nreq, connections, handles, runningQueries, cancelled, clock>>

---------------------------------------------------------------------------
(* handleListDatabases *)

ListDatabasesBegin(t) ==
    /\ pc[t] = "listDatabases"
    /\ CacheOrLookup(t, "ld_fetch")

\* conn.ListDatabases: SHOW DATABASES
ListDatabasesFetch(t) ==
    /\ pc[t] = "ld_fetch"
    /\ \/ Return(t, Error("failed to list databases", "driver"))
       \/ /\ handles[loc[t].h].open
          /\ \E s \in Snapshots :
                Goto(t, "ld_store", [loc[t] EXCEPT !.data = {<<"databases", s>>}])
    /\ UNCHANGED <<nreq, shared, clock>>

ListDatabasesStore(t) ==
    /\ pc[t] = "ld_store"
    /\ StoreAndReturn(t, setCache(cacheKey(req[t]), loc[t].data))

---------------------------------------------------------------------------
(* handleListTables *)

ListTablesBegin(t) ==
    /\ pc[t] = "listTables"
    /\ CacheOrLookup(t, "lt_fetch")

\* conn.ListTables(database): SHOW TABLE STATUS
ListTablesFetch(t) ==
    /\ pc[t] = "lt_fetch"
    /\ \/ Return(t, Error("failed to list tables", "driver"))
       \/ /\ handles[loc[t].h].open
          /\ \E s \in Snapshots :
                Goto(t, "lt_store", [loc[t] EXCEPT !.data = {<<req[t].database, s>>}])
    /\ UNCHANGED <<nreq, shared, clock>>

ListTablesStore(t) ==
    /\ pc[t] = "lt_store"
    /\ StoreAndReturn(t, setCache(cacheKey(req[t]), loc[t].data))

---------------------------------------------------------------------------
(* handleListAllTables *)

ListAllTablesBegin(t) ==
    /\ pc[t] = "listAllTables"
    /\ CacheOrLookup(t, "la_fetch")

\* conn.ListDatabases, then conn.ListTables for every database that is not
\* a system database; a database whose listing fails is skipped.
ListAllTablesFetch(t) ==
    /\ pc[t] = "la_fetch"
    /\ \/ Return(t, Error("failed to list databases", "driver"))
       \/ /\ handles[loc[t].h].open
          /\ \E s \in Snapshots, listed \in SUBSET UserDatabases :
                Goto(t, "la_store",
                     [loc[t] EXCEPT !.data =
                        {<<db, s>> : db \in listed \ SystemDatabases}])
    /\ UNCHANGED <<nreq, shared, clock>>

\* ListAllTablesStore that stores with the default lifetime.
ListAllTablesStoreDefault(t) ==
    /\ pc[t] = "la_store"
    /\ StoreAndReturn(t, setCache(cacheKey(req[t]), loc[t].data))

ListAllTablesStore(t) ==
    /\ pc[t] = "la_store"
    /\ StoreAndReturn(t, setCacheWithTTL(cacheKey(req[t]), loc[t].data, AllTablesTTL))

---------------------------------------------------------------------------
(* handleExecuteQuery and Connection.ExecuteQueryWithContext *)

\* ExecLookup that goes on to the query without registering the context.
ExecLookupUnregistered(t) ==
    /\ pc[t] = "executeQuery"
    /\ Lookup(t, "eq_precheck")

ExecLookup(t) ==
    /\ pc[t] = "executeQuery"
    /\ Lookup(t, "eq_register")

\* ctx, cancel := context.WithCancel(...); under runningQueriesMu:
\* s.runningQueries[requestID] = queryContext{cancel, sql}
ExecRegister(t) ==
    /\ pc[t] = "eq_register"
    /\ runningQueries' = Put(runningQueries, req[t].id,
                             [cancel |-> t, sql |-> req[t].sql])
    /\ Goto(t, "eq_precheck", loc[t])
    /\ UNCHANGED <<nreq, connections, handles, cache, cancelled, clock>>

\* ExecReturn that cleans up only after a query that succeeded.
ExecReturnOnSuccess(t, v) ==
    /\ runningQueries' = IF v.kind = "result" THEN Del(runningQueries, req[t].id)
                                               ELSE runningQueries
    /\ cancelled' = cancelled \ {t}
    /\ Return(t, v)
    /\ UNCHANGED <<nreq, connections, handles, cache, clock>>

\* ExecReturn without the deferred cleanup.
ExecReturnNoCleanup(t, v) ==
    /\ Return(t, v)
    /\ UNCHANGED <<nreq, shared, clock>>

\* ExecuteQueryWithContext returns v.  The deferred cleanup runs before
\* handleExecuteQuery returns: under runningQueriesMu,
\* delete(s.runningQueries, requestID); the context is released.
ExecReturn(t, v) ==
    /\ runningQueries' = Del(runningQueries, req[t].id)
    /\ cancelled' = cancelled \ {t}
    /\ Return(t, v)
    /\ UNCHANGED <<nreq, connections, handles, cache, clock>>

\* The other steps of the call leave the shared state alone.
ExecGoto(t, p, l) ==
    /\ Goto(t, p, l)
    /\ UNCHANGED <<nreq, shared, clock>>

\* ctx.Err() != nil
ctxErr(t) == t \in cancelled

\* if ctx.Err() != nil { return "query cancelled before execution" };
\* otherwise c.db.QueryContext(ctx, sqlQuery) is called and the task blocks
\* in the driver (a cancellation between the check and the call is seen by
\* the driver like one during the call).
ExecPrecheck(t) ==
    /\ pc[t] = "eq_precheck"
    /\ IF ctxErr(t)
       THEN ExecReturn(t, Error("query cancelled before execution", "context canceled"))
       ELSE ExecGoto(t, "eq_wait", loc[t])

\* ExecQueryReturn without the ctx.Err() test on the driver's error.
ExecQueryReturnGeneric(t) ==
    /\ pc[t] = "eq_wait"
    /\ \/ ExecReturn(t, Error("failed to execute query", "driver"))
       \/ /\ handles[loc[t].h].open
          /\ ExecGoto(t, "eq_next", loc[t])
       \/ /\ handles[loc[t].h].open
          /\ ExecReturn(t, Error("failed to get columns", "driver"))

\* capacity := limit; make([][]interface{}, 0, capacity) panics when the
\* limit is above the largest capacity the runtime allocates.
CapOutOfRange(r) == r.limit = "huge"

\* QueryContext returns.  On an error the code asks the context which
\* message to give; with rows, rows.Columns() may fail, and the result is
\* allocated with the limit as its capacity.
ExecQueryReturn(t) ==
    /\ pc[t] = "eq_wait"
    /\ \/ /\ ctxErr(t)
          /\ ExecReturn(t, Error("query cancelled", "context canceled"))
       \/ /\ ~ctxErr(t)
          /\ ExecReturn(t, Error("failed to execute query", "driver"))
       \/ /\ handles[loc[t].h].open
          /\ ~CapOutOfRange(req[t])
          /\ ExecGoto(t, "eq_next", loc[t])
       \/ /\ handles[loc[t].h].open
          /\ ExecReturn(t, Error("failed to get columns", "driver"))

\* QueryContext and rows.Columns() have succeeded and make panics.  No
\* function on the goroutine's stack recovers, so the runtime ends the
\* process: main's loop and every other goroutine with it.
ExecAllocPanic(t) ==
    /\ pc[t] = "eq_wait"
    /\ handles[loc[t].h].open
    /\ CapOutOfRange(req[t])
    /\ Running
    /\ main' = "crashed"
    /\ UNCHANGED <<nreq, pc, req, loc, out, shared, clock, resp, writeMutex,
                   writer, stdout, locking, frontend>>

\* for rows.Next() { ... }; after the loop rows.Err(), which is the
\* context's error when the cancellation closed the rows, or the driver's.
ExecNext(t) ==
    /\ pc[t] = "eq_next"
    /\ \/ /\ loc[t].nrows < MaxRows
          /\ handles[loc[t].h].open
          /\ ExecGoto(t, "eq_rowcheck", loc[t])
       \/ /\ handles[loc[t].h].open
          /\ ExecReturn(t, Result("rows", loc[t].nrows))
       \/ /\ ExecReturn(t, Error("error iterating rows",
                                 IF ctxErr(t) THEN "context canceled" ELSE "driver"))

\* ExecRow without the cancellation check between rows.
ExecRowUnchecked(t) ==
    /\ pc[t] = "eq_rowcheck"
    /\ \/ ExecGoto(t, "eq_next", [loc[t] EXCEPT !.nrows = @ + 1])
       \/ ExecReturn(t, Error("failed to scan row", "driver"))

\* if ctx.Err() != nil { return "query cancelled during fetch" };
\* rows.Scan, the byte conversion, result.Rows = append(result.Rows, columns)
ExecRow(t) ==
    /\ pc[t] = "eq_rowcheck"
    /\ IF ctxErr(t)
       THEN ExecReturn(t, Error("query cancelled during fetch", "context canceled"))
       ELSE \/ ExecGoto(t, "eq_next", [loc[t] EXCEPT !.nrows = @ + 1])
            \/ ExecReturn(t, Error("failed to scan row", "driver"))

---------------------------------------------------------------------------
(* handleCancelQuery *)

\* CancelLookup that ignores a missing record.
CancelLookupSilent(t) ==
    /\ pc[t] = "cancelQuery"
    /\ IF req[t].requestId \in DOMAIN runningQueries
       THEN Goto(t, "cancel_signal",
                 [loc[t] EXCEPT !.qctx = runningQueries[req[t].requestId].cancel])
       ELSE Return(t, Result("success", 0))
    /\ UNCHANGED <<nreq, shared, clock>>

\* under runningQueriesMu: queryCtx, exists := s.runningQueries[requestId]
CancelLookup(t) ==
    /\ pc[t] = "cancelQuery"
    /\ IF req[t].requestId \in DOMAIN runningQueries
       THEN Goto(t, "cancel_signal",
                 [loc[t] EXCEPT !.qctx = runningQueries[req[t].requestId].cancel])
       ELSE Return(t, Error("query not found or already completed", req[t].requestId))
    /\ UNCHANGED <<nreq, shared, clock>>

\* The contexts of the executeQuery calls that have not returned.
LiveCtx == {u \in Tasks : pc[u] \in {"eq_precheck", "eq_wait", "eq_next", "eq_rowcheck"}}

\* CancelSignal that waits for the cancelled call to return.
CancelSignalWaiting(t) ==
    /\ pc[t] = "cancel_signal"
    /\ loc[t].qctx \notin LiveCtx
    /\ cancelled' = cancelled
    /\ Return(t, Result("success", 0))
    /\ UNCHANGED <<nreq, connections, handles, cache, runningQueries, clock>>

\* CancelSignal that also removes the record it cancelled.
CancelSignalRemoving(t) ==
    /\ pc[t] = "cancel_signal"
    /\ cancelled' = cancelled \cup ({loc[t].qctx} \cap LiveCtx)
    /\ runningQueries' = Del(runningQueries, req[t].requestId)
    /\ Return(t, Result("success", 0))
    /\ UNCHANGED <<nreq, connections, handles, cache, clock>>

\* queryCtx.cancel(); return nil.  Cancelling the context of a call that has
\* returned changes nothing any task can see.
CancelSignal(t) ==
    /\ pc[t] = "cancel_signal"
    /\ cancelled' = cancelled \cup ({loc[t].qctx} \cap LiveCtx)
    /\ Return(t, Result("success", 0))
    /\ UNCHANGED <<nreq, connections, handles, cache, runningQueries, clock>>

---------------------------------------------------------------------------
(* The query pipeline: connect, executeQuery and cancelQuery requests. *)

ReceiveQuery == Receive({"connect", "executeQuery", "cancelQuery"}, MaxRequests)

NextQuery ==
    \/ ReceiveQuery
    \/ \E t \in Tasks :
        \/ ConnectOpen(t)
        \/ ConnectRegister(t)
        \/ ExecLookup(t)
        \/ ExecRegister(t)
        \/ ExecPrecheck(t)
        \/ ExecQueryReturn(t)
        \/ ExecNext(t)
        \/ ExecRow(t)
        \/ CancelLookup(t)
        \/ CancelSignal(t)

SpecQuery == Init /\ [][NextQuery]_vars

\* The query pipeline of a client that uses one request id for all its
\* queries, over one request more.
ReceiveSameId ==
    ReceiveFrom({r \in RequestsOf({"connect", "executeQuery", "cancelQuery"}) :
                    r.id \in {"r0", "r1"} /\ r.requestId \in {"", "r1"}},
                MaxHandleRequests)

NextSameId ==
    \/ ReceiveSameId
    \/ \E t \in Tasks :
        \/ ConnectOpen(t)
        \/ ConnectRegister(t)
        \/ ExecLookup(t)
        \/ ExecRegister(t)
        \/ ExecPrecheck(t)
        \/ ExecQueryReturn(t)
        \/ ExecNext(t)
        \/ ExecRow(t)
        \/ CancelLookup(t)
        \/ CancelSignal(t)

SpecSameId == Init /\ [][NextSameId]_vars

\* A step of the goroutine of an executeQuery.
ExecStep(t) ==
    \/ ExecLookup(t)
    \/ ExecRegister(t)
    \/ ExecPrecheck(t)
    \/ ExecQueryReturn(t)
    \/ ExecNext(t)
    \/ ExecRow(t)

\* The query pipeline when every goroutine of an executeQuery is scheduled
\* again and again and every call to the driver returns.
SpecQueryLive == SpecQuery /\ \A t \in Tasks : WF_vars(ExecStep(t))

---------------------------------------------------------------------------
(* The connection registry: connect, disconnect and the two uncached      *)
(* handle-using requests.                                                  *)

ReceiveConn ==
    Receive({"connect", "disconnect", "healthCheck", "listColumns"}, MaxRequests)

NextConn ==
    \/ ReceiveConn
    \/ \E t \in Tasks :
        \/ ConnectOpen(t)
        \/ ConnectRegister(t)
        \/ Disconnect(t)
        \/ HealthCheckLookup(t)
        \/ HealthCheckPing(t)
        \/ ListColumnsLookup(t)
        \/ ListColumnsQuery(t)

SpecConn == Init /\ [][NextConn]_vars

---------------------------------------------------------------------------
(* The metadata cache: connect and the three cached listings, with the    *)
(* clock advancing.                                                        *)

ReceiveMeta ==
    Receive({"connect", "listDatabases", "listTables", "listAllTables"},
            MaxRequests)

NextMeta ==
    \/ ReceiveMeta
    \/ Tick
    \/ \E t \in Tasks :
        \/ ConnectOpen(t)
        \/ ConnectRegister(t)
        \/ ListDatabasesBegin(t)
        \/ ListDatabasesFetch(t)
        \/ ListDatabasesStore(t)
        \/ ListTablesBegin(t)
        \/ ListTablesFetch(t)
        \/ ListTablesStore(t)
        \/ ListAllTablesBegin(t)
        \/ ListAllTablesFetch(t)
        \/ ListAllTablesStore(t)

SpecMeta == Init /\ [][NextMeta]_vars

---------------------------------------------------------------------------
(* Every method that uses a handle, with connect and disconnect. *)

ReceiveHandles ==
    Receive({"connect", "disconnect", "healthCheck", "listDatabases",
             "listTables", "listAllTables", "listColumns", "executeQuery"},
            MaxHandleRequests)

NextHandles ==
    \/ ReceiveHandles
    \/ \E t \in Tasks :
        \/ ConnectOpen(t)
        \/ ConnectRegister(t)
        \/ Disconnect(t)
        \/ HealthCheckLookup(t)
        \/ HealthCheckPing(t)
        \/ ListDatabasesBegin(t)
        \/ ListDatabasesFetch(t)
        \/ ListDatabasesStore(t)
        \/ ListTablesBegin(t)
        \/ ListTablesFetch(t)
        \/ ListTablesStore(t)
        \/ ListAllTablesBegin(t)
        \/ ListAllTablesFetch(t)
        \/ ListAllTablesStore(t)
        \/ ListColumnsLookup(t)
        \/ ListColumnsQuery(t)
        \/ ExecLookup(t)
        \/ ExecRegister(t)
        \/ ExecPrecheck(t)
        \/ ExecQueryReturn(t)
        \/ ExecNext(t)
        \/ ExecRow(t)

SpecHandles == Init /\ [][NextHandles]_vars

---------------------------------------------------------------------------
(* Every method HandleRequest knows. *)

Methods == {"ping", "testConnection", "connect", "disconnect", "healthCheck",
            "listDatabases", "listTables", "listAllTables", "listColumns",
            "executeQuery", "cancelQuery"}

ReceiveAll == Receive(Methods, MaxRequests)

NextAll ==
    \/ ReceiveAll
    \/ \E t \in Tasks :
        \/ Ping(t)
        \/ TestConnectionOpen(t)
        \/ TestConnectionVersion(t)
        \/ ConnectOpen(t)
        \/ ConnectRegister(t)
        \/ Disconnect(t)
        \/ HealthCheckLookup(t)
        \/ HealthCheckPing(t)
        \/ ListDatabasesBegin(t)
        \/ ListDatabasesFetch(t)
        \/ ListDatabasesStore(t)
        \/ ListTablesBegin(t)
        \/ ListTablesFetch(t)
        \/ ListTablesStore(t)
        \/ ListAllTablesBegin(t)
        \/ ListAllTablesFetch(t)
        \/ ListAllTablesStore(t)
        \/ ListColumnsLookup(t)
        \/ ListColumnsQuery(t)
        \/ ExecLookup(t)
        \/ ExecRegister(t)
        \/ ExecPrecheck(t)
        \/ ExecQueryReturn(t)
        \/ ExecNext(t)
        \/ ExecRow(t)
        \/ CancelLookup(t)
        \/ CancelSignal(t)

SpecAll == Init /\ [][NextAll]_vars

---------------------------------------------------------------------------
(* main's loop with the output stream: the lines it reads, the requests    *)
(* HandleRequest answers without a handler's work (ping, an unknown        *)
(* method, parameters that do not decode), and sendResponse step by step.  *)

\* The JSON-RPC ids of the client, in the order of its lines.
LoopIds == <<"q1", "q2", "q3", "q4", "q5", "q6">>

\* The number of the input line whose request has this id.
LineNo(id) == CHOOSE i \in 1..Len(LoopIds) : LoopIds[i] = id

\* What json.Unmarshal says of parameters that do not decode.
DecodeErrors == {"json: cannot unmarshal string into Go value"}

\* The methods whose handlers decode parameters.
ParamMethods == Methods \ {"ping"}

\* Line n as a request of a method in M with parameters that do not decode.
BadParamsRequestsAt(n, M) ==
    {[Request(m, LoopIds[n], "", "", "") EXCEPT !.params = e] :
        m \in M \cap ParamMethods, e \in DecodeErrors}

\* The requests line n can be: a ping, a method HandleRequest does not
\* know, or an executeQuery with parameters that do not decode.
LoopRequestsAt(n) ==
    {Request(m, LoopIds[n], "", "", "") : m \in {"ping", "describe"}}
    \cup BadParamsRequestsAt(n, {"executeQuery"})

\* scanner.Scan, json.Unmarshal succeed: go func(req)
ScanRequest == ReceiveFrom(LoopRequestsAt(nreq + 1), MaxRequests)

\* The same for a request of any method with parameters that do not decode.
ScanBadParams ==
    ReceiveFrom(BadParamsRequestsAt(nreq + 1, ParamMethods), MaxRequests)

\* ScanBadLine that gives up on a line it cannot parse.
ScanBadLineFatal ==
    /\ main = "scan"
    /\ nreq < MaxRequests
    /\ nreq' = nreq + 1
    /\ main' = "fatal"
    /\ UNCHANGED <<pc, req, loc, out, shared, clock, resp, writeMutex, writer,
                   stdout, locking, frontend>>

\* json.Unmarshal fails: sendError(writer, "", protocol.ParseError,
\* "Failed to parse request"), which main runs itself before it continues.
ScanBadLine ==
    /\ main = "scan"
    /\ nreq < MaxRequests
    /\ nreq' = nreq + 1
    /\ resp' = [resp EXCEPT ![Main] =
                    Line("", "error", ParseError, "Failed to parse request", "",
                         nreq + 1)]
    /\ main' = "send_lock"
    /\ UNCHANGED <<pc, req, loc, out, shared, clock, writeMutex, writer, stdout,
                   locking, frontend>>

\* scanner.Scan returns false with no error: main returns, the deferred
\* srv.Shutdown closes the registered connections and the process exits
\* with its goroutines.
ScanEOF ==
    /\ main = "scan"
    /\ main' = "exited"
    /\ handles' = [h \in DOMAIN handles |->
                     IF \E id \in DOMAIN connections : connections[id] = h
                     THEN [handles[h] EXCEPT !.open = FALSE] ELSE handles[h]]
    /\ UNCHANGED <<nreq, pc, req, loc, out, connections, cache, runningQueries,
                   cancelled, clock, resp, writeMutex, writer, stdout, locking, frontend>>

\* scanner.Scan returns false with scanner.Err() set: log.Fatalf
ScanFail ==
    /\ main = "scan"
    /\ main' = "fatal"
    /\ UNCHANGED <<nreq, pc, req, loc, out, shared, clock, resp, writeMutex,
                   writer, stdout, locking, frontend>>

\* A termination signal arrives.  main installs no handler for it, so the
\* runtime ends the process at once: no deferred call runs.
Signal ==
    /\ Running
    /\ main' = "killed"
    /\ UNCHANGED <<nreq, pc, req, loc, out, shared, clock, resp, writeMutex,
                   writer, stdout, locking, frontend>>

\* HandleRequest returns the response of task t, which goes on to
\* sendResponse.
Respond(t, kind, code, message, cause) ==
    /\ Running
    /\ resp' = [resp EXCEPT ![t] =
                    Line(req[t].id, kind, code, message, cause, LineNo(req[t].id))]
    /\ pc' = [pc EXCEPT ![t] = "send_lock"]
    /\ UNCHANGED <<nreq, req, loc, out, shared, clock, main, writeMutex, writer,
                   stdout, locking, frontend>>

\* case "ping"
RespondPing(t) ==
    /\ pc[t] = "ping"
    /\ Respond(t, "result", 0, "", "")

\* RespondUnknown that reports an internal error.
RespondUnknownInternal(t) ==
    /\ pc[t] = req[t].method
    /\ req[t].method \notin Methods \cup {""}
    /\ Respond(t, "error", InternalError, "Method not found", req[t].method)

\* default: Code: protocol.MethodNotFound,
\* Message: fmt.Sprintf("Method not found: %s", req.Method)
RespondUnknown(t) ==
    /\ pc[t] = req[t].method
    /\ req[t].method \notin Methods \cup {""}
    /\ Respond(t, "error", MethodNotFound, "Method not found", req[t].method)

\* The handler's json.Unmarshal(params, &req) fails: it returns
\* fmt.Errorf("invalid parameters: %w", err) before anything else, and
\* HandleRequest answers with Code: protocol.InternalError.
RespondBadParams(t) ==
    /\ pc[t] \in ParamMethods
    /\ req[t].params # "ok"
    /\ Respond(t, "error", InternalError, "invalid parameters", req[t].params)

\* Where writer w is: main's place or the place of the goroutine.
Place(w) == IF w = Main THEN main ELSE pc[w]

\* Writer w moves to place p; a goroutine that is done ends.
Move(w, p) ==
    IF w = Main
    THEN main' = p /\ UNCHANGED <<pc, req>>
    ELSE /\ pc' = [pc EXCEPT ![w] = p]
         /\ req' = IF p = "idle" THEN [req EXCEPT ![w] = NoRequest] ELSE req
         /\ main' = main

\* SendLock that does not take the mutex.
SendLockNoWait(w) ==
    /\ Running
    /\ Place(w) = "send_lock"
    /\ Move(w, "send_write")
    /\ UNCHANGED <<nreq, loc, out, shared, clock, resp, writeMutex, writer,
                   stdout, locking, frontend>>

\* writeMutex.Lock()
SendLock(w) ==
    /\ Running
    /\ Place(w) = "send_lock"
    /\ writeMutex = NoWriter
    /\ writeMutex' = w
    /\ Move(w, "send_write")
    /\ UNCHANGED <<nreq, loc, out, shared, clock, resp, writer, stdout, locking, frontend>>

\* data := json.Marshal(response); writer.Write(data).  Data that does not
\* fit the buffer goes to os.Stdout at once.
SendWrite(w) ==
    /\ Running
    /\ Place(w) = "send_write"
    /\ LET chunk == [w |-> w, part |-> "data", line |-> resp[w]] IN
        \/ writer' = Append(writer, chunk) /\ stdout' = stdout
        \/ writer' = <<>> /\ stdout' = stdout \o Append(writer, chunk)
    /\ Move(w, "send_newline")
    /\ UNCHANGED <<nreq, loc, out, shared, clock, resp, writeMutex, locking, frontend>>

\* writer.WriteByte(10)
SendNewline(w) ==
    /\ Running
    /\ Place(w) = "send_newline"
    /\ writer' = Append(writer, [w |-> w, part |-> "newline", line |-> resp[w]])
    /\ Move(w, "send_flush")
    /\ UNCHANGED <<nreq, loc, out, shared, clock, resp, writeMutex, stdout, locking, frontend>>

\* writer.Flush(); the deferred writeMutex.Unlock(); sendResponse returns:
\* the goroutine ends, main goes back to scanner.Scan.
SendFlush(w) ==
    /\ Running
    /\ Place(w) = "send_flush"
    /\ stdout' = stdout \o writer
    /\ writer' = <<>>
    /\ writeMutex' = IF writeMutex = w THEN NoWriter ELSE writeMutex
    /\ resp' = [resp EXCEPT ![w] = NoLine]
    /\ Move(w, IF w = Main THEN "scan" ELSE "idle")
    /\ UNCHANGED <<nreq, loc, out, shared, clock, locking, frontend>>

NextLoop ==
    \/ ScanRequest
    \/ ScanBadLine
    \/ ScanEOF
    \/ ScanFail
    \/ \E t \in Tasks :
        \/ RespondPing(t)
        \/ RespondUnknown(t)
        \/ RespondBadParams(t)
    \/ \E w \in Writers :
        \/ SendLock(w)
        \/ SendWrite(w)
        \/ SendNewline(w)
        \/ SendFlush(w)

SpecLoop == Init /\ [][NextLoop]_vars

\* Requests of every method with parameters that do not decode.
NextParams ==
    \/ ScanBadParams
    \/ \E t \in Tasks : RespondBadParams(t)
    \/ \E w \in Writers :
        \/ SendLock(w)
        \/ SendWrite(w)
        \/ SendNewline(w)
        \/ SendFlush(w)

SpecParams == Init /\ [][NextParams]_vars

---------------------------------------------------------------------------
(* Queries whose limit is above what make accepts, beside pings. *)

\* executeQuery requests with such a limit.
HugeLimitRequests ==
    {[r EXCEPT !.limit = "huge"] : r \in RequestsOf({"executeQuery"})}

ReceiveCrash ==
    ReceiveFrom(RequestsOf({"connect", "executeQuery", "ping"})
                    \cup HugeLimitRequests, MaxRequests)

NextCrash ==
    \/ ReceiveCrash
    \/ ScanFail
    \/ \E t \in Tasks :
        \/ Ping(t)
        \/ ConnectOpen(t)
        \/ ConnectRegister(t)
        \/ ExecLookup(t)
        \/ ExecRegister(t)
        \/ ExecPrecheck(t)
        \/ ExecQueryReturn(t)
        \/ ExecAllocPanic(t)
        \/ ExecNext(t)
        \/ ExecRow(t)

SpecCrash == Init /\ [][NextCrash]_vars

---------------------------------------------------------------------------
(* Connection establishment: connect and testConnection requests, some     *)
(* with parameters that do not decode.                                     *)

ReceiveConnecting ==
    ReceiveFrom(RequestsOf({"connect", "testConnection"})
                    \cup BadParamsRequestsAt(nreq + 1, {"connect", "testConnection"}),
                MaxRequests)

NextConnecting ==
    \/ ReceiveConnecting
    \/ \E t \in Tasks :
        \/ ConfigDecodeFailed(t)
        \/ NewConnectionOpen(t)
        \/ NewConnectionPing(t)
        \/ ConnectRegister(t)
        \/ TestConnectionVersion(t)

SpecConnecting == Init /\ [][NextConnecting]_vars

---------------------------------------------------------------------------
(* One call on its own: task 1 on a registered handle, at the place given  *)
(* in the handler of a request in R, which for an executeQuery has         *)
(* registered its context.                                                 *)

InitCall(place, R) ==
    /\ nreq = 1
    /\ pc = [t \in Tasks |-> IF t = 1 THEN place ELSE "idle"]
    /\ \E r \in R : req = [t \in Tasks |-> IF t = 1 THEN r ELSE NoRequest]
    /\ loc = [t \in Tasks |-> IF t = 1 THEN [NoLocals EXCEPT !.h = 1] ELSE NoLocals]
    /\ out = NoResponse
    /\ connections = [id \in {"c1"} |-> 1]
    /\ handles = <<[id |-> "c1", open |-> TRUE]>>
    /\ cache = EmptyMap
    /\ runningQueries = [id \in {req[1].id} \ {"r0"} |->
                            [cancel |-> 1, sql |-> req[1].sql]]
    /\ cancelled = {}
    /\ now = 0
    /\ ticks = 0
    /\ main = "scan"
    /\ resp = [w \in Writers |-> NoLine]
    /\ writeMutex = NoWriter
    /\ writer = <<>>
    /\ stdout = <<>>
    /\ locks = [l \in Locks |-> Unlocked]
    /\ script = [t \in Tasks |-> <<>>]
    /\ ClientInit

\* Task t goes on at place p with the local variables l of the call.
CallGoto(t, p, l) ==
    /\ pc' = [pc EXCEPT ![t] = p]
    /\ loc' = [loc EXCEPT ![t] = l]
    /\ UNCHANGED <<nreq, req, out, shared, clock, loop, locking, frontend>>

\* The SQL texts of the client.
SqlTexts == {"SELECT 1", "SELECT * FROM t", "SELECT a FROM t ORDER BY a"}

\* The params of an executeQuery as they are on the wire: limit and offset
\* are optional.
QueryParams ==
    {[present |-> p, sql |-> q, limit |-> l, offset |-> o] :
        p \in SUBSET {"limit", "offset"}, q \in SqlTexts,
        l \in -1..MaxLimit, o \in -1..MaxOffset}

\* json.Unmarshal into protocol.QueryRequest: an int that is absent is 0.
QueryRequest(params) ==
    [SQL |-> params.sql,
     Limit |-> IF "limit" \in params.present THEN params.limit ELSE 0,
     Offset |-> IF "offset" \in params.present THEN params.offset ELSE 0]

\* The executeQuery requests with these params, absent fields as zero.
QueryRequests ==
    {[Request("executeQuery", "r1", "c1", "", "") EXCEPT !.params = qp,
                                                         !.sql = qp.sql] :
        qp \in {x \in QueryParams :
                    /\ "limit" \notin x.present => x.limit = 0
                    /\ "offset" \notin x.present => x.offset = 0}}

\* fmt.Sprintf("%d", n)
FormatInt(n) == ToString(n)

\* sqlQuery with the offset clause whenever an offset is given.
sqlQueryOffsetAlways(sql, limit, offset) ==
    LET limited == IF limit > 0 THEN sql \o " LIMIT " \o FormatInt(limit) ELSE sql
    IN IF offset > 0 THEN limited \o " OFFSET " \o FormatInt(offset) ELSE limited

\* if limit > 0 { sqlQuery = Sprintf("%s LIMIT %d", sqlQuery, limit);
\* if offset > 0 { sqlQuery = Sprintf("%s OFFSET %d", sqlQuery, offset) } }
sqlQuery(sql, limit, offset) ==
    IF limit > 0
    THEN LET limited == sql \o " LIMIT " \o FormatInt(limit)
         IN IF offset > 0 THEN limited \o " OFFSET " \o FormatInt(offset)
                          ELSE limited
    ELSE sql

\* handleExecuteQuery passes req.SQL, req.Limit, req.Offset, and
\* c.db.QueryContext(ctx, sqlQuery) is called with the text built.
QueryContext(t) ==
    /\ pc[t] = "eq_build"
    /\ LET q == QueryRequest(req[t].params) IN
        CallGoto(t, "eq_issued",
                 [h |-> loc[t].h, sent |-> sqlQuery(q.SQL, q.Limit, q.Offset)])

NextSql == \E t \in Tasks : QueryContext(t)

SpecSql == InitCall("eq_build", QueryRequests) /\ [][NextSql]_vars

---------------------------------------------------------------------------
(* The rows of ExecuteQueryWithContext, value by value.  A string is the   *)
(* sequence of its bytes; a value the driver scans is a byte string or     *)
(* something else (an int64, say), which the conversion leaves alone.      *)

\* A value: whether it is a []byte, and its bytes.
Value(isBytes, v) == <<isBytes, v>>

\* n bytes, the first k of them p, the others q.
Fill(n, k, p, q) == [i \in 1..n |-> IF i <= k THEN p ELSE q]

\* Byte strings of length 16 with every count of printable bytes, around
\* the ends of the printable range, and byte strings of other lengths.
ByteStrings ==
    {Fill(16, k, p, q) : k \in 0..16, p \in {32, 126},
                         q \in {0, 31, 127, 171, 255}}
    \cup {Fill(n, k, 65, 0) : n \in {0, 1, 15, 17}, k \in {0, 1, 15, 17}}

\* A few values: a binary UUID, a text of 16 bytes, a short text, an int64.
FewValues ==
    {Value(TRUE, Fill(16, 0, 97, 171)), Value(TRUE, Fill(16, 16, 97, 0)),
     Value(TRUE, Fill(1, 1, 97, 0)), Value(FALSE, <<7>>)}

\* looksLikeUUID that takes 13 printable bytes for binary.
looksLikeUUIDOffByOne(b) ==
    /\ Len(b) = 16
    /\ \E i \in 1..Len(b) : b[i] # 0
    /\ ~(Cardinality({i \in 1..Len(b) : b[i] >= 32 /\ b[i] <= 126}) > 13)

\* looksLikeUUID: 16 bytes, not all zero, printableCount > 12 is text
looksLikeUUID(b) ==
    /\ Len(b) = 16
    /\ \E i \in 1..Len(b) : b[i] # 0
    /\ ~(Cardinality({i \in 1..Len(b) : b[i] >= 32 /\ b[i] <= 126}) > 12)

\* The bytes of a hexadecimal digit as %x prints it: '0'..'9', 'a'..'f'.
HexDigit(d) == IF d < 10 THEN 48 + d ELSE 87 + d

\* fmt.Sprintf("%x", b)
Hex(b) ==
    [j \in 1..(2 * Len(b)) |->
        IF j % 2 = 1 THEN HexDigit(b[(j + 1) \div 2] \div 16)
                     ELSE HexDigit(b[j \div 2] % 16)]

\* The conversion of one scanned value: a byte string of length 16 that
\* looksLikeUUID becomes hex[0:8]-hex[8:12]-hex[12:16]-hex[16:20]-
\* hex[20:32], another byte string becomes string(b).
ConvertValue(col) ==
    IF col[1]
    THEN IF Len(col[2]) = 16 /\ looksLikeUUID(col[2])
         THEN LET hex == Hex(col[2]) IN
              Value(FALSE, SubSeq(hex, 1, 8) \o <<45>> \o SubSeq(hex, 9, 12)
                           \o <<45>> \o SubSeq(hex, 13, 16) \o <<45>>
                           \o SubSeq(hex, 17, 20) \o <<45>> \o SubSeq(hex, 21, 32))
         ELSE Value(FALSE, col[2])
    ELSE col

\* rows.Columns() returns the names of n columns, for some n in N.
RowsColumnsIn(t, N) ==
    /\ pc[t] = "eq_columns"
    /\ \E n \in N :
        CallGoto(t, "eq_rows_next",
                 [h |-> loc[t].h, columnNames |-> n, Rows |-> <<>>,
                  scanned |-> <<>>, columns |-> <<>>, result |-> <<>>])

\* QueryResult that reports no rows affected for a query that returns rows.
QueryResultNoneAffected(l) ==
    [Columns |-> l.columnNames, Rows |-> l.Rows,
     TotalRows |-> Len(l.Rows), RowsAffected |-> 0]

\* result.TotalRows = int64(len(result.Rows));
\* result.RowsAffected = result.TotalRows
QueryResult(l) ==
    [Columns |-> l.columnNames, Rows |-> l.Rows,
     TotalRows |-> Len(l.Rows), RowsAffected |-> Len(l.Rows)]

\* for rows.Next(): another row, or the end of the rows and rows.Err(),
\* after which the result is complete.
RowsNext(t) ==
    /\ pc[t] = "eq_rows_next"
    /\ \/ /\ Len(loc[t].Rows) < MaxRows
          /\ CallGoto(t, "eq_scan", loc[t])
       \/ CallGoto(t, "eq_returned",
                   [loc[t] EXCEPT !.result = <<QueryResult(loc[t])>>])
       \/ CallGoto(t, "eq_failed", loc[t])

\* columns := make([]interface{}, len(columnNames)); rows.Scan fills it
\* with values in V, or fails.  scanned keeps the rows as the driver gave
\* them.
RowsScanIn(t, V) ==
    /\ pc[t] = "eq_scan"
    /\ \/ \E row \in [1..loc[t].columnNames -> V] :
            CallGoto(t, "eq_convert",
                     [loc[t] EXCEPT !.scanned = Append(@, row), !.columns = row])
       \/ CallGoto(t, "eq_failed", loc[t])

\* The conversion of the byte slices, then
\* result.Rows = append(result.Rows, columns)
RowsConvert(t) ==
    /\ pc[t] = "eq_convert"
    /\ LET columns == [i \in DOMAIN loc[t].columns |-> ConvertValue(loc[t].columns[i])]
       IN CallGoto(t, "eq_rows_next",
                   [loc[t] EXCEPT !.columns = columns, !.Rows = Append(@, columns)])

\* Result sets of one column holding any of the byte strings.
NextBytes ==
    \E t \in Tasks :
        \/ RowsColumnsIn(t, {1})
        \/ RowsNext(t)
        \/ RowsScanIn(t, {Value(TRUE, b) : b \in ByteStrings})
        \/ RowsConvert(t)

SpecBytes ==
    InitCall("eq_columns", RequestsOf({"executeQuery"})) /\ [][NextBytes]_vars

\* Result sets of up to MaxCols columns holding a few values.
NextRows ==
    \E t \in Tasks :
        \/ RowsColumnsIn(t, 0..MaxCols)
        \/ RowsNext(t)
        \/ RowsScanIn(t, FewValues)
        \/ RowsConvert(t)

SpecRows ==
    InitCall("eq_columns", RequestsOf({"executeQuery"})) /\ [][NextRows]_vars

---------------------------------------------------------------------------
(* handleListAllTables database by database. *)

\* What SHOW DATABASES can list: user schemas, system schemas, and a
\* schema whose name differs from a system schema's in case only.
BackendDatabases == {"app", "shop", "MySQL", "mysql", "sys"}

\* conn.ListDatabases(): an error, or the databases listed.  listed are
\* the databases whose ListTables call succeeded, failed those whose call
\* failed, allTables the keys of the map being built.
ListAllTablesDatabases(t) ==
    /\ pc[t] = "la_fetch"
    /\ \/ Return(t, Error("failed to list databases", "driver"))
       \/ \E D \in SUBSET BackendDatabases :
            Goto(t, "la_loop",
                 [h |-> loc[t].h, qctx |-> NoCtx, nrows |-> 0, data |-> NoData,
                  databases |-> D, todo |-> D, listed |-> {}, failed |-> {},
                  allTables |-> {}])
    /\ UNCHANGED <<nreq, shared, clock>>

\* ListAllTablesNext that gives up when a database's tables cannot be
\* listed.
ListAllTablesNextAbort(t) ==
    /\ pc[t] = "la_loop"
    /\ loc[t].todo # {}
    /\ \E db \in loc[t].todo :
        LET rest == [loc[t] EXCEPT !.todo = @ \ {db}] IN
        IF db \in SystemDatabases
        THEN Goto(t, "la_loop", rest)
        ELSE \/ Goto(t, "la_loop", [rest EXCEPT !.listed = @ \cup {db},
                                                !.allTables = @ \cup {db}])
             \/ Return(t, Error("failed to list tables", "driver"))
    /\ UNCHANGED <<nreq, shared, clock>>

\* One round of for _, db := range databases: a system database is
\* skipped; conn.ListTables(db.Name) fails and the database is skipped, or
\* succeeds and allTables[db.Name] = tables.
ListAllTablesNext(t) ==
    /\ pc[t] = "la_loop"
    /\ loc[t].todo # {}
    /\ \E db \in loc[t].todo :
        LET rest == [loc[t] EXCEPT !.todo = @ \ {db}] IN
        IF db \in SystemDatabases
        THEN Goto(t, "la_loop", rest)
        ELSE \/ Goto(t, "la_loop", [rest EXCEPT !.listed = @ \cup {db},
                                                !.allTables = @ \cup {db}])
             \/ Goto(t, "la_loop", [rest EXCEPT !.failed = @ \cup {db}])
    /\ UNCHANGED <<nreq, shared, clock>>

\* The loop is over: allTables goes to the cache and to the caller.
ListAllTablesDone(t) ==
    /\ pc[t] = "la_loop"
    /\ loc[t].todo = {}
    /\ \E s \in Snapshots :
        Goto(t, "la_store",
             [loc[t] EXCEPT !.data = {<<db, s>> : db \in loc[t].allTables}])
    /\ UNCHANGED <<nreq, shared, clock>>

NextAllTables ==
    \E t \in Tasks :
        \/ ListAllTablesDatabases(t)
        \/ ListAllTablesNext(t)
        \/ ListAllTablesDone(t)
        \/ ListAllTablesStore(t)

SpecAllTables ==
    InitCall("la_fetch", RequestsOf({"listAllTables"})) /\ [][NextAllTables]_vars

---------------------------------------------------------------------------
(* The ways the process ends, with the requests that open and close        *)
(* handles.                                                                *)

ReceiveShutdown ==
    Receive({"testConnection", "connect", "disconnect"}, MaxRequests)

NextShutdown ==
    \/ ReceiveShutdown
    \/ ScanEOF
    \/ ScanFail
    \/ Signal
    \/ \E t \in Tasks :
        \/ TestConnectionOpen(t)
        \/ TestConnectionVersion(t)
        \/ ConnectOpen(t)
        \/ ConnectRegister(t)
        \/ Disconnect(t)

SpecShutdown == Init /\ [][NextShutdown]_vars

---------------------------------------------------------------------------
(* The handlers as the lock operations they perform, in order, on s.mu,    *)
(* s.cacheMu and s.runningQueriesMu, with the calls that can block         *)
(* (the driver, Connection.Close) between them.                            *)

Op(kind, lock) == <<kind, lock>>
Call == <<Op("call", "")>>

\* getConnection: s.mu.RLock(); defer s.mu.RUnlock()
GetConnectionOps == <<Op("RLock", "mu"), Op("RUnlock", "mu")>>
\* getFromCache: s.cacheMu.RLock(); defer s.cacheMu.RUnlock()
GetFromCacheOps == <<Op("RLock", "cacheMu"), Op("RUnlock", "cacheMu")>>
\* setCacheWithTTL: s.cacheMu.Lock(); defer s.cacheMu.Unlock()
SetCacheOps == <<Op("Lock", "cacheMu"), Op("Unlock", "cacheMu")>>
\* s.runningQueriesMu.Lock(); ...; s.runningQueriesMu.Unlock()
RunningQueriesOps ==
    <<Op("Lock", "runningQueriesMu"), Op("Unlock", "runningQueriesMu")>>
\* s.mu.Lock(); defer s.mu.Unlock(), with a Close call under the lock
RegistryOps == <<Op("Lock", "mu")>> \o Call \o <<Op("Unlock", "mu")>>

\* LockPaths with the cache invalidated under s.mu on disconnect and the
\* connection looked up under s.cacheMu by the listings.
LockPathsNested(m) ==
    IF m = "disconnect"
    THEN {<<Op("Lock", "mu")>> \o SetCacheOps \o <<Op("Unlock", "mu")>>}
    ELSE IF m \in {"listDatabases", "listTables", "listAllTables"}
    THEN {<<Op("RLock", "cacheMu")>> \o GetConnectionOps
              \o <<Op("RUnlock", "cacheMu")>>}
    ELSE {<<>>}

\* The sequences of operations the handler of method m can perform, one
\* per path through it; "shutdown" is Server.Shutdown.
LockPaths(m) ==
    CASE m \in {"ping", "testConnection"} -> {Call}
      [] m = "connect" -> {Call, Call \o RegistryOps}
      [] m = "disconnect" -> {<<Op("Lock", "mu"), Op("Unlock", "mu")>>, RegistryOps}
      [] m = "shutdown" -> {RegistryOps}
      [] m \in {"healthCheck", "listColumns"} ->
            {GetConnectionOps, GetConnectionOps \o Call}
      [] m \in {"listDatabases", "listTables", "listAllTables"} ->
            {GetFromCacheOps,
             GetFromCacheOps \o GetConnectionOps,
             GetFromCacheOps \o GetConnectionOps \o Call,
             GetFromCacheOps \o GetConnectionOps \o Call \o SetCacheOps}
      [] m = "executeQuery" ->
            {GetConnectionOps,
             GetConnectionOps \o RunningQueriesOps \o Call \o RunningQueriesOps}
      [] m = "cancelQuery" -> {RunningQueriesOps}

\* A goroutine starts in the handler of some method, on some path.
StartHandler ==
    /\ nreq < MaxRequests
    /\ \E t \in Tasks :
        /\ script[t] = <<>>
        /\ \A u \in Tasks : script[u] = <<>> => t <= u
        /\ \E m \in Methods \cup {"shutdown"} : \E path \in LockPaths(m) :
            /\ path # <<>>
            /\ script' = [script EXCEPT ![t] = path]
    /\ nreq' = nreq + 1
    /\ UNCHANGED <<pc, req, loc, out, shared, clock, loop, locks, frontend>>

\* Task t is at an operation of this kind.
At(t, kind) == script[t] # <<>> /\ Head(script[t])[1] = kind

\* Task t has called Lock on l and waits for it.
WaitsToWrite(t, l) ==
    At(t, "Lock") /\ Head(script[t])[2] = l /\ locks[l] # Unlocked

\* Task t has done its operation.
Done(t) ==
    /\ script' = [script EXCEPT ![t] = Tail(@)]
    /\ UNCHANGED <<nreq, pc, req, loc, out, shared, clock, loop, frontend>>

\* Lock: waits until no reader and no writer holds the mutex.
Lock(t) ==
    /\ At(t, "Lock")
    /\ LET l == Head(script[t])[2] IN
        /\ locks[l] = Unlocked
        /\ locks' = [locks EXCEPT ![l].w = t]
    /\ Done(t)

Unlock(t) ==
    /\ At(t, "Unlock")
    /\ locks' = [locks EXCEPT ![Head(script[t])[2]].w = 0]
    /\ Done(t)

\* RLock: waits while a writer holds the mutex or waits for it.
RLock(t) ==
    /\ At(t, "RLock")
    /\ LET l == Head(script[t])[2] IN
        /\ locks[l].w = 0
        /\ \A u \in Tasks : ~WaitsToWrite(u, l)
        /\ locks' = [locks EXCEPT ![l].r = @ \cup {t}]
    /\ Done(t)

RUnlock(t) ==
    /\ At(t, "RUnlock")
    /\ locks' = [locks EXCEPT ![Head(script[t])[2]].r = @ \ {t}]
    /\ Done(t)

\* A call to the driver returns.
CallReturns(t) ==
    /\ At(t, "call")
    /\ locks' = locks
    /\ Done(t)

LockStep(t) ==
    \/ Lock(t)
    \/ Unlock(t)
    \/ RLock(t)
    \/ RUnlock(t)
    \/ CallReturns(t)

NextLocks ==
    \/ StartHandler
    \/ \E t \in Tasks :
        \/ Lock(t)
        \/ Unlock(t)
        \/ RLock(t)
        \/ RUnlock(t)
        \/ CallReturns(t)

SpecLocks == Init /\ [][NextLocks]_vars

---------------------------------------------------------------------------
(* Properties of the running-query registry and of cancellation. *)

\* Task t is inside an executeQuery call that has registered its record
\* and has not returned.
Executing(t) == pc[t] \in {"eq_precheck", "eq_wait", "eq_next", "eq_rowcheck"}

\* Task t takes a step that ends its handler.
Returns(t) == pc[t] # "idle" /\ pc'[t] = "idle"

NotFound(r) == Error("query not found or already completed", r)

\* The three errors ExecuteQueryWithContext gives for a cancellation.
CancelledMessages == {"query cancelled before execution", "query cancelled",
                      "query cancelled during fetch"}

\* What the client tests for: the message carries the context's error.
CancellationFlavored(line) ==
    line.kind = "error" /\ line.cause = "context canceled"

\* C1: a record for request id R exists only while an executeQuery call
\* with id R is executing; a call that returns (result, driver error or
\* cancellation) leaves no record under its id, and a cancelQuery(R)
\* processed when no call with id R is executing reports not found.
C1_RecordOnlyWhileExecuting ==
    [][/\ \A r \in DOMAIN runningQueries' :
            \E t \in Tasks : Executing(t)' /\ req'[t].id = r
       /\ \A t \in Tasks :
            Executing(t) /\ Returns(t) => req[t].id \notin DOMAIN runningQueries'
       /\ \A c \in Tasks :
            (/\ pc[c] = "cancelQuery" /\ pc'[c] # pc[c]
             /\ ~\E t \in Tasks : Executing(t) /\ req[t].id = req[c].requestId)
            => out' = Response(req[c], NotFound(req[c].requestId))]_vars

\* C1 witness: an executeQuery has returned its rows, its record is gone
\* and a cancelQuery for its id is waiting to be processed.
C1_Witness ==
    /\ out.req.method = "executeQuery" /\ out.kind = "result"
    /\ out.req.id \notin DOMAIN runningQueries
    /\ \E c \in Tasks : pc[c] = "cancelQuery" /\ req[c].requestId = out.req.id

C3_CancelUnknownIsError ==
    [][\A c \in Tasks :
        (/\ pc[c] = "cancelQuery" /\ pc'[c] # pc[c]
         /\ req[c].requestId \notin DOMAIN runningQueries)
        => /\ out' = Response(req[c], NotFound(req[c].requestId))
           /\ out'.kind = "error" /\ out'.code = InternalError
           /\ runningQueries' = runningQueries
           /\ cancelled' = cancelled]_vars

\* C3 witness: a cancelQuery has been answered with the not-found error
\* while a query under another id was executing.
C3_Witness ==
    /\ out.req.method = "cancelQuery"
    /\ out.message = "query not found or already completed"
    /\ \E t \in Tasks : Executing(t) /\ req[t].id # out.req.requestId

\* C4: once cancelQuery has found the record, its signal-and-return step
\* can be taken whatever the cancelled call is doing: it never waits for
\* the call to unwind.
C4_CancelDoesNotWait ==
    \A c \in Tasks : pc[c] = "cancel_signal" => ENABLED CancelSignal(c)

\* C4 witness: cancelQuery has answered success while the call it
\* cancelled is still blocked in the driver, its record still registered.
C4_Witness ==
    /\ out.req.method = "cancelQuery" /\ out.kind = "result"
    /\ \E t \in Tasks :
        /\ pc[t] = "eq_wait" /\ ctxErr(t)
        /\ req[t].id = out.req.requestId
        /\ out.req.requestId \in DOMAIN runningQueries
        /\ runningQueries[out.req.requestId].cancel = t

\* C5: the SQL is issued only from the pre-execution check with the signal
\* unset, a row is processed only from the between-rows check with the
\* signal unset, and a check that finds the signal set returns its own
\* "query cancelled ..." error with no rows.
C5_CancellationChecks ==
    [][\A t \in Tasks :
        /\ (pc'[t] = "eq_wait" /\ pc[t] # "eq_wait") =>
                pc[t] = "eq_precheck" /\ ~ctxErr(t)
        /\ (pc'[t] \in {"eq_next", "eq_rowcheck"} /\ loc'[t].nrows > loc[t].nrows) =>
                pc[t] = "eq_rowcheck" /\ ~ctxErr(t)
        /\ (pc[t] = "eq_precheck" /\ ctxErr(t) /\ pc'[t] # pc[t]) =>
                out' = Response(req[t], Error("query cancelled before execution",
                                              "context canceled"))
        /\ (pc[t] = "eq_rowcheck" /\ ctxErr(t) /\ pc'[t] # pc[t]) =>
                /\ out' = Response(req[t], Error("query cancelled during fetch",
                                                 "context canceled"))
                /\ out'.rows = 0 /\ out'.kind = "error"]_vars

\* C5 witness: a query cancelled after its first row was offered has
\* answered with the between-rows cancellation error.
C5_Witness ==
    /\ out.req.method = "executeQuery"
    /\ out.message = "query cancelled during fetch"
    /\ out.rows = 0

---------------------------------------------------------------------------
(* Properties of the connection registry. *)

\* The handles for connection id that are open.
LiveHandles(id) ==
    {h \in 1..Len(handles) : handles[h].open /\ handles[h].id = id}

\* The handles connect calls have opened for id and not yet registered.
PendingHandles(id) ==
    {loc[t].h : t \in {u \in Tasks : pc[u] = "connect_register"
                                     /\ req[u].connectionId = id}}

NoConnection(id) == Error("connection not found", id)

C7_DisconnectUnknownIsError ==
    [][\A t \in Tasks :
        (pc[t] = "disconnect" /\ pc'[t] # pc[t]) =>
            LET id == req[t].connectionId IN
            IF id \notin DOMAIN connections
            THEN /\ out' = Response(req[t], NoConnection(id))
                 /\ out'.kind = "error"
                 /\ connections' = connections
                 /\ handles' = handles
            ELSE /\ out'.kind = "result"
                 /\ connections' = Del(connections, id)
                 /\ ~handles'[connections[id]].open
                 /\ \A h \in 1..Len(handles) \ {connections[id]} :
                        handles'[h] = handles[h]]_vars

\* C7 witness: after a connect and a disconnect of the same id, a second
\* disconnect has been answered with the error.
C7_Witness ==
    /\ out.req.method = "disconnect" /\ out.kind = "error"
    /\ Len(handles) = 1 /\ ~handles[1].open
    /\ handles[1].id = out.req.connectionId
    /\ connections = EmptyMap

\* The methods that use a handle.
HandleMethods == {"healthCheck", "listDatabases", "listTables", "listAllTables",
                  "listColumns", "executeQuery"}

\* C8: a handle-using request that starts when the registry has no handle
\* for its connection id is answered with the "connection not found"
\* error, never with a result.
C8_UnknownConnectionIsError ==
    [][\A t \in Tasks :
        (/\ pc[t] \in HandleMethods /\ pc'[t] # pc[t]
         /\ req[t].connectionId \notin DOMAIN connections)
        => out' = Response(req[t], NoConnection(req[t].connectionId))]_vars

---------------------------------------------------------------------------
(* Properties of the metadata cache. *)

CachedMethods == {"listDatabases", "listTables", "listAllTables"}
FetchPlaces == {"ld_fetch", "lt_fetch", "la_fetch"}
StorePlaces == {"ld_store", "lt_store", "la_store"}

\* What a lookup that finds nothing to serve does next: the error for an
\* unknown connection, or the fetch from the backend.
Missed(t) ==
    IF req[t].connectionId \in DOMAIN connections
    THEN pc'[t] \in FetchPlaces /\ out' = out
    ELSE out' = Response(req[t], NoConnection(req[t].connectionId))

\* C9: a lookup at most ttl after the latest store of its key is a hit
\* with exactly the value stored, a lookup more than ttl after it is a
\* miss, a ttl of 0 counts as 30 seconds, and the miss of an expired key is
\* the miss of a key never stored; a store records the value fetched and
\* the time of the store.
C9_CacheValidWithinTTL ==
    [][\A t \in Tasks :
        LET k == cacheKey(req[t]) IN
        /\ (pc[t] \in CachedMethods /\ pc'[t] # pc[t]) =>
            IF k \in DOMAIN cache
            THEN LET ttl == IF cache[k].ttl = 0 THEN 30 ELSE cache[k].ttl IN
                 IF now - cache[k].timestamp <= ttl
                 THEN out' = Response(req[t], Listing(req[t].method, cache[k].data,
                                      "cache", now - cache[k].timestamp))
                 ELSE Missed(t)
            ELSE Missed(t)
        /\ (pc[t] \in StorePlaces /\ pc'[t] # pc[t]) =>
            /\ cache'[k].data = loc[t].data
            /\ cache'[k].timestamp = now
            /\ out'.data = loc[t].data]_vars

\* C9 witness: a listDatabases has been answered from an entry exactly 30
\* seconds old.
C9_Witness ==
    /\ out.req.method = "listDatabases"
    /\ out.from = "cache" /\ out.age = 30

\* C10 as claimed: of the requests for one key issued at the same time, at
\* most one fetches from the backend.
C10_OneBackendCall ==
    ticks = 0 =>
        \A t, u \in Tasks :
            (/\ pc[t] \in StorePlaces /\ pc[u] \in StorePlaces
             /\ cacheKey(req[t]) = cacheKey(req[u])) => t = u

\* The lifetime the handler of a method gives its entries.
LifetimeOf(method) == IF method = "listAllTables" THEN 300 ELSE 30

\* C10 as amended: a listing request whose cache lookup comes after an
\* earlier request for the same key has stored its result, and no more than
\* 30 seconds after that store (5 minutes for listAllTables), makes no
\* backend call and is answered with the stored value; requests whose
\* lookups both come before the first store each call the backend.
C10_SecondWithinTTLServedFromCache ==
    [][\A t \in Tasks :
        LET k == cacheKey(req[t]) IN
        (/\ pc[t] \in CachedMethods /\ pc'[t] # pc[t]
         /\ k \in DOMAIN cache
         /\ now - cache[k].timestamp <= LifetimeOf(req[t].method))
        => /\ pc'[t] = "idle"
           /\ out'.req = req[t]
           /\ out'.kind = "result" /\ out'.from = "cache"
           /\ out'.data = cache[k].data]_vars

\* C10 witness: a listTables for a connected id has been answered from
\* the cache with the value an earlier request stored.
C10_Witness ==
    /\ out.req.method = "listTables"
    /\ out.from = "cache" /\ out.age > 0 /\ out.age <= 30
    /\ out.req.connectionId \in DOMAIN connections
    /\ out.data = cache[cacheKey(out.req)].data
    /\ out.data # NoData

\* A lookup of task t is answered from the cache.
Hit(t) == pc'[t] = "idle" /\ out'.req = req[t] /\ out'.from = "cache"

\* C11: an entry is written only by the store step of a listDatabases,
\* listTables or listAllTables call, stamped with the time of that step
\* (the fetch has just returned); a lookup of an entry written by
\* listDatabases or listTables is a hit exactly while the entry is at most
\* 30 seconds old, and of one written by listAllTables exactly while it is
\* at most 300 seconds old.
C11_HandlerLifetimes ==
    [][/\ \A t \in Tasks :
            LET k == cacheKey(req[t]) IN
            /\ (pc[t] \in CachedMethods /\ pc'[t] # pc[t] /\ k \in DOMAIN cache) =>
                    (Hit(t) <=> now - cache[k].timestamp
                                    <= (IF req[t].method = "listAllTables"
                                        THEN 300 ELSE 30))
            /\ (pc[t] \in StorePlaces /\ pc'[t] # pc[t]) =>
                    /\ cache'[k].timestamp = now
                    /\ cache'[k].ttl = (IF pc[t] = "la_store" THEN 300 ELSE 0)
       /\ cache' # cache =>
            \E t \in Tasks :
                /\ pc[t] \in StorePlaces /\ pc'[t] # pc[t]
                /\ \A k \in DOMAIN cache' \ {cacheKey(req[t])} :
                        k \in DOMAIN cache /\ cache'[k] = cache[k]]_vars

\* C11 witness: a listAllTables has been answered from an entry older than
\* 30 seconds, which a listDatabases entry would not have outlived.
C11_Witness ==
    /\ out.req.method = "listAllTables"
    /\ out.from = "cache" /\ out.age > 30
    /\ cacheKey(out.req) \in DOMAIN cache
    /\ cache[cacheKey(out.req)].ttl = 300

\* C12: a step of a request other than listDatabases, listTables and
\* listAllTables leaves the cache as it was and is never an answer from the
\* cache; a listColumns or executeQuery result is returned only by the
\* step that follows the call to the backend.
C12_OnlyListingsUseCache ==
    [][\A t \in Tasks :
        (pc'[t] # pc[t] /\ req[t].method \notin CachedMethods) =>
            /\ cache' = cache
            /\ ~Hit(t)
            /\ (/\ req[t].method \in {"listColumns", "executeQuery"}
                /\ pc'[t] = "idle" /\ out'.kind = "result")
                    => pc[t] \in {"columns_query", "eq_next"}]_vars

\* C12 witness: a listColumns has been answered by the backend while the
\* cache holds a listing of the same connection.
C12_Witness ==
    /\ out.req.method = "listColumns" /\ out.kind = "result"
    /\ \E r \in RequestsOf(CachedMethods) :
            /\ r.connectionId = out.req.connectionId
            /\ cacheKey(r) \in DOMAIN cache

---------------------------------------------------------------------------
(* Properties of the request loop. *)

\* Task u is blocked in the database: QueryContext has not returned.
Blocked(u) == pc[u] = "eq_wait"

\* C13: while an executeQuery call is blocked in the database, the loop
\* can start the goroutine of the next request, and a ping or cancelQuery
\* that has been received can take its every step, the one that writes its
\* response included, without a step of the blocked call.
C13_BlockedQueryBlocksNobody ==
    (\E u \in Tasks : Blocked(u)) =>
        /\ (nreq < MaxRequests /\ \E t \in Tasks : Free(t)) => ENABLED ReceiveAll
        /\ \A t \in Tasks :
            /\ pc[t] = "ping" => ENABLED Ping(t)
            /\ pc[t] = "cancelQuery" => ENABLED CancelLookup(t)
            /\ pc[t] = "cancel_signal" => ENABLED CancelSignal(t)

\* C13 witness: the last response written is a ping's, and an executeQuery
\* call is blocked in the database.
C13_Witness ==
    /\ out.req.method = "ping" /\ out.kind = "result"
    /\ \E u \in Tasks : Blocked(u) /\ ~ctxErr(u)
    /\ nreq = 3

\* Writer w is inside sendResponse's locked section.
InSection(w) == Place(w) \in {"send_write", "send_newline", "send_flush"}

\* The bytes given to the output so far: written through or still buffered.
Stream == stdout \o writer

\* C14: at most one writer, a goroutine or main on its parse-error path,
\* is inside the write section, and it holds writeMutex; the output is a
\* sequence of complete lines, each the data and the newline of one
\* response, but for the line the writer in the section is still writing.
C14_WritesSerialized ==
    /\ \A w, v \in Writers : InSection(w) /\ InSection(v) => w = v
    /\ \A w \in Writers : InSection(w) => writeMutex = w
    /\ \A i \in 1..Len(writer) : writer[i].w = writeMutex
    /\ \A i \in 1..Len(Stream) :
        IF i % 2 = 1
        THEN /\ Stream[i].part = "data"
             /\ i = Len(Stream) => Place(Stream[i].w) = "send_newline"
        ELSE /\ Stream[i].part = "newline"
             /\ Stream[i].w = Stream[i - 1].w
             /\ Stream[i].line = Stream[i - 1].line

\* C14 witness: one response line is out, a second writer has its line in
\* the buffer and holds the mutex, and a third writer waits for the mutex.
C14_Witness ==
    /\ Len(stdout) = 2
    /\ \E w, v \in Writers :
        /\ w # v /\ stdout[1].w # w
        /\ Place(w) = "send_flush" /\ Len(writer) = 2
        /\ Place(v) = "send_lock"

\* The complete lines of the output that answer input line n.
Answers(n) ==
    {i \in 1..Len(stdout) : stdout[i].part = "newline" /\ stdout[i].line.n = n}

\* C15: no input line is answered twice, and when the input has closed
\* and main has returned, every request that was read has its response in
\* the output, under its id.
C15_EveryRequestAnswered ==
    /\ \A n \in 1..Len(LoopIds) : Cardinality(Answers(n)) <= 1
    /\ main = "exited" =>
        \A t \in Tasks : req[t] # NoRequest =>
            \E i \in Answers(LineNo(req[t].id)) : stdout[i].line.id = req[t].id

\* C16: a line that does not parse starts no goroutine and changes nothing
\* of the server; main sends one error response for it, with code -32700
\* and an empty id, and is back at scanner.Scan when the line is out.
C16_ParseErrorAnswered ==
    [][/\ (main = "scan" /\ nreq' = nreq + 1 /\ pc' = pc) =>
            /\ main' = "send_lock"
            /\ resp'[Main] = Line("", "error", -32700, "Failed to parse request",
                                  "", nreq + 1)
            /\ UNCHANGED <<req, loc, shared, stdout>>
       /\ (main = "send_flush" /\ main' # main) =>
            /\ main' = "scan"
            /\ Answers(resp[Main].n) = {}
            /\ {i \in 1..Len(stdout') : /\ stdout'[i].part = "newline"
                                        /\ stdout'[i].line.n = resp[Main].n}
                    = {Len(stdout')}
            /\ stdout'[Len(stdout')].line = resp[Main]
            /\ stdout'[Len(stdout') - 1] = [w |-> Main, part |-> "data",
                                            line |-> resp[Main]]
            /\ UNCHANGED shared]_vars

\* C16 witness: the output holds a parse-error line and, after it, the
\* result of a request read later.
C16_Witness ==
    \E i, j \in 1..Len(stdout) :
        /\ i < j
        /\ stdout[i].part = "newline" /\ stdout[i].line.code = ParseError
        /\ stdout[i].line.id = ""
        /\ stdout[j].part = "newline" /\ stdout[j].line.kind = "result"
        /\ stdout[j].line.n > stdout[i].line.n

\* C17: a handler that fails, by a panic included, answers its request
\* with an error and ends alone: main's loop ends abnormally only on a
\* read failure of the input, never by what a request's goroutine does.
C17_HandlerFailureConfined ==
    [][/\ main' # "crashed"
       /\ \A t \in Tasks :
            (/\ Blocked(t) /\ CapOutOfRange(req[t]) /\ handles[loc[t].h].open
             /\ pc'[t] # pc[t])
            => /\ pc'[t] = "idle"
               /\ out'.req = req[t] /\ out'.kind = "error"]_vars

\* C18: a request whose method is none of the eleven is answered with an
\* error of code -32601 under its id, and its handling leaves the
\* connection registry, the cache and the running-query registry as they
\* were.
C18_UnknownMethod ==
    [][\A t \in Tasks :
        (/\ req[t].method \notin Methods \cup {""}
         /\ pc[t] = req[t].method /\ pc'[t] # pc[t])
        => /\ resp'[t] = Line(req[t].id, "error", -32601, "Method not found",
                              req[t].method, LineNo(req[t].id))
           /\ pc'[t] = "send_lock"
           /\ UNCHANGED <<connections, handles, cache, runningQueries>>]_vars

\* C18 witness: the method-not-found line of a request is in the output.
C18_Witness ==
    \E i \in 1..Len(stdout) :
        /\ stdout[i].part = "newline"
        /\ stdout[i].line.code = MethodNotFound
        /\ stdout[i].line.id = LoopIds[stdout[i].line.n]
        /\ stdout[i].line.cause = "describe"

\* C19: a request whose parameters do not decode is answered with an
\* error of the invalid-params code that carries the decoder's message,
\* and its handler returns with the connection registry, the cache and the
\* running-query registry as they were.
C19_BadParamsIsInvalidParams ==
    [][\A t \in Tasks :
        (pc[t] \in ParamMethods /\ req[t].params # "ok" /\ pc'[t] # pc[t])
        => /\ resp'[t].kind = "error"
           /\ resp'[t].code = InvalidParams
           /\ resp'[t].cause = req[t].params
           /\ UNCHANGED <<connections, handles, cache, runningQueries>>]_vars

---------------------------------------------------------------------------
(* Properties of the locks. *)

\* The locks task t holds.
Held(t) == {l \in Locks : locks[l].w = t \/ t \in locks[l].r}

\* C20: no task holds two of s.mu, s.cacheMu and s.runningQueriesMu at
\* once, and whenever some handler has not finished, some handler can take
\* its next step: the handlers never deadlock on these locks.
C20_LocksNeverNested ==
    /\ \A t \in Tasks : Cardinality(Held(t)) <= 1
    /\ (\E t \in Tasks : script[t] # <<>>) => \E t \in Tasks : ENABLED LockStep(t)

\* C20 witness: one task holds s.mu for writing, inside a call that can
\* block, while another task holds s.cacheMu for writing: two of the locks
\* are held at once, by different tasks.
C20_Witness ==
    \E t, u \in Tasks :
        /\ t # u
        /\ locks["mu"].w = t /\ At(t, "call")
        /\ locks["cacheMu"].w = u

---------------------------------------------------------------------------
(* Properties of shutdown and of connection establishment. *)

\* The handles that are open.
OpenHandles == {h \in DOMAIN handles : handles[h].open}

\* C21: whenever the process ends (main returns at the end of the input,
\* log.Fatalf after a read error, a termination signal), no handle is left
\* open, the handles of connect calls in flight included.
C21_ShutdownClosesEveryHandle ==
    [][(Running /\ ~Running') => OpenHandles' = {}]_vars

\* Task t returns from NewConnection with an error in this step.
EstablishmentFails(t) ==
    /\ pc[t] \in {"connect", "testConnection", "nc_ping"}
    /\ req[t].params = "ok"
    /\ pc'[t] = "idle"

\* C22: when establishing the connection fails, testConnection answers
\* with a result that has success false and the failure's message, and
\* connect answers with an error carrying that message; testConnection
\* answers with an error only when its parameters do not decode.
C22_EstablishmentFailureReported ==
    [][\A t \in Tasks :
        /\ EstablishmentFails(t) =>
            /\ out'.req = req[t]
            /\ out'.message \in {NewConnectionError(c) :
                                    c \in OpenFailures \cup PingFailures}
            /\ out'.message = NewConnectionError(out'.cause)
            /\ req[t].method = "testConnection" =>
                    out'.kind = "result" /\ out'.value = "test failed"
            /\ req[t].method = "connect" =>
                    out'.kind = "error" /\ out'.code = InternalError
        /\ (req[t].method = "testConnection" /\ pc[t] # "idle" /\ pc'[t] = "idle") =>
            (out'.kind = "error" <=> req[t].params # "ok")]_vars

\* C22 witness: a testConnection has just been answered with a failed
\* result naming a refused connection, while a connect is in flight.
C22_Witness ==
    /\ out.req.method = "testConnection"
    /\ out.kind = "result" /\ out.value = "test failed"
    /\ out.message = "connection refused"
    /\ \E t \in Tasks : req[t].method = "connect" /\ pc[t] = "nc_ping"

\* C23: a handle enters the registry only from a connect whose ping has
\* succeeded; a connect whose NewConnection fails answers with an error,
\* leaves the registry and every other handle as they were, and the handle
\* whose ping failed is closed.
C23_ConnectRegistersAfterPing ==
    [][/\ connections' # connections =>
            \E u \in Tasks :
                /\ pc[u] = "connect_register"
                /\ connections' = Put(connections, req[u].connectionId, loc[u].h)
       /\ \A t \in Tasks :
            /\ (pc'[t] = "connect_register" /\ pc[t] # "connect_register") =>
                    /\ pc[t] = "nc_ping"
                    /\ loc'[t].h = loc[t].h
                    /\ handles'[loc[t].h].open
            /\ (req[t].method = "connect" /\ EstablishmentFails(t)) =>
                    /\ out'.kind = "error"
                    /\ connections' = connections
                    /\ pc[t] = "nc_ping" => ~handles'[loc[t].h].open
                    /\ \A h \in DOMAIN handles :
                            h # loc[t].h => handles'[h] = handles[h]
                    /\ DOMAIN handles' = DOMAIN handles]_vars

\* C23 witness: a connect has just failed at its ping, its handle is
\* closed, and the handle registered earlier under the same id is still
\* registered and open.
C23_Witness ==
    /\ out.req.method = "connect" /\ out.kind = "error"
    /\ out.cause \in PingFailures
    /\ out.req.connectionId \in DOMAIN connections
    /\ handles[connections[out.req.connectionId]].open
    /\ Len(handles) = 2 /\ connections[out.req.connectionId] = 1
    /\ ~handles[2].open
    /\ \A t \in Tasks : pc[t] = "idle"

---------------------------------------------------------------------------
(* Properties of Connection.ExecuteQueryWithContext. *)

\* The params of the call of task t.
ParamsOf(t) == req[t].params
\* Whether the params give this field, and with which value.
Given(t, f, v) ==
    /\ f \in ParamsOf(t).present
    /\ (IF f = "limit" THEN ParamsOf(t).limit ELSE ParamsOf(t).offset) = v

\* C24: the SQL text sent to the driver is the input sql when the limit is
\* 0 or omitted, whatever the offset; sql followed by " LIMIT N" when the
\* limit is N > 0 and the offset is 0; and sql followed by " LIMIT N OFFSET
\* M" when the limit is N > 0 and the offset is M > 0.
C24_SqlSentToDriver ==
    \A t \in Tasks : pc[t] = "eq_issued" =>
        LET sql == ParamsOf(t).sql
            sent == loc[t].sent
        IN /\ ("limit" \notin ParamsOf(t).present \/ Given(t, "limit", 0)) =>
                sent = sql
           /\ \A n \in 1..MaxLimit : Given(t, "limit", n) =>
                /\ ("offset" \notin ParamsOf(t).present \/ Given(t, "offset", 0)) =>
                        sent = sql \o " LIMIT " \o ToString(n)
                /\ \A m \in 1..MaxOffset : Given(t, "offset", m) =>
                        sent = sql \o " LIMIT " \o ToString(n)
                                   \o " OFFSET " \o ToString(m)

\* C24 witness: a query with limit 0 and a positive offset has been sent as
\* it came.
C24_Witness ==
    \E t \in Tasks :
        /\ pc[t] = "eq_issued"
        /\ Given(t, "limit", 0) /\ Given(t, "offset", MaxOffset)
        /\ loc[t].sent = ParamsOf(t).sql

\* Where the j-th hexadecimal digit stands in the hyphenated form.
UUIDPosition(j) ==
    j + (IF j > 8 THEN 1 ELSE 0) + (IF j > 12 THEN 1 ELSE 0)
      + (IF j > 16 THEN 1 ELSE 0) + (IF j > 20 THEN 1 ELSE 0)

\* Byte string b is to be rendered as text.
RenderedAsText(b) ==
    \/ Len(b) # 16
    \/ \A i \in 1..16 : b[i] = 0
    \/ Cardinality({i \in 1..16 : b[i] \in 32..126}) >= 13

\* C25: a scanned byte string of length 16 is rendered as lowercase hex in
\* 8-4-4-4-12 hyphenated grouping unless all its bytes are zero or 13 or
\* more of them are printable ASCII (32..126), in which case it is rendered
\* as text; a byte string of any other length is rendered as text.
C25_ByteStringRendering ==
    \A t \in Tasks : pc[t] = "eq_rows_next" =>
        \A r \in DOMAIN loc[t].Rows : \A i \in DOMAIN loc[t].Rows[r] :
            LET b == loc[t].scanned[r][i][2]
                text == loc[t].Rows[r][i][2]
            IN IF RenderedAsText(b)
               THEN text = b
               ELSE /\ Len(text) = 36
                    /\ \A k \in {9, 14, 19, 24} : text[k] = 45
                    /\ \A j \in 1..16 :
                        LET hi == text[UUIDPosition(2 * j - 1)]
                            lo == text[UUIDPosition(2 * j)]
                            digit(c) == IF c \in 48..57 THEN c - 48
                                        ELSE IF c \in 97..102 THEN c - 87
                                        ELSE -1000
                        IN 16 * digit(hi) + digit(lo) = b[j]

\* C25 witness: a byte string of length 16 with exactly 12 printable bytes
\* has been rendered in the hyphenated form, 36 bytes long.
C25_Witness ==
    \E t \in Tasks :
        /\ pc[t] = "eq_rows_next"
        /\ Len(loc[t].Rows) = 1
        /\ Len(loc[t].scanned[1][1][2]) = 16
        /\ Cardinality({i \in 1..16 : loc[t].scanned[1][1][2][i] \in 32..126}) = 12
        /\ Len(loc[t].Rows[1][1][2]) = 36

\* C27: in every successful query result every row has as many values as
\* there are columns, and rowsAffected = totalRows = the number of rows.
C27_RowsMatchColumns ==
    \A t \in Tasks : pc[t] = "eq_returned" =>
        LET result == loc[t].result[1] IN
        /\ \A r \in DOMAIN result.Rows : Len(result.Rows[r]) = result.Columns
        /\ result.RowsAffected = result.TotalRows
        /\ result.TotalRows = Len(result.Rows)

\* C27 witness: a result of one row and MaxCols columns has been returned.
C27_Witness ==
    \E t \in Tasks :
        /\ pc[t] = "eq_returned"
        /\ loc[t].result[1].Columns = MaxCols
        /\ Len(loc[t].result[1].Rows) = 1
        /\ loc[t].result[1].RowsAffected = 1

---------------------------------------------------------------------------
(* Properties of handleListAllTables. *)

\* The schemas a listing has an entry for.
Schemas(data) == {e[1] : e \in data}

\* C26: the result of listAllTables has no entry for information_schema,
\* mysql, performance_schema or sys, compared case-sensitively, even when
\* the backend lists them; it has an entry for every other schema whose
\* tables were listed; and the call succeeds, leaving out only the failing
\* schemas, when listing the tables of some schemas fails.
C26_ListAllTablesFiltersAndSkips ==
    [][\A t \in Tasks :
        /\ pc[t] = "la_loop" => pc'[t] \in {"la_loop", "la_store"}
        /\ (pc[t] = "la_store" /\ pc'[t] = "idle") =>
            /\ out'.req = req[t] /\ out'.kind = "result"
            /\ Schemas(out'.data) \cap
                    {"information_schema", "mysql", "performance_schema", "sys"} = {}
            /\ loc[t].listed \cup loc[t].failed =
                    loc[t].databases \ {"information_schema", "mysql",
                                        "performance_schema", "sys"}
            /\ Schemas(out'.data) = loc[t].listed]_vars

\* C26 witness: the backend has listed mysql and sys beside MySQL, listing
\* the tables of shop has failed, and the result about to be returned has
\* entries for app and MySQL only.
C26_Witness ==
    \E t \in Tasks :
        /\ pc[t] = "la_store"
        /\ loc[t].databases = BackendDatabases
        /\ loc[t].failed = {"shop"}
        /\ Schemas(loc[t].data) = {"app", "MySQL"}

---------------------------------------------------------------------------
(* Progress and order in handleExecuteQuery. *)

\* C28: when the driver calls of every executeQuery return, a record
\* registered under a request id is eventually removed: the id goes from
\* absent to running and back to absent, and no record stays forever.
C28_RecordEventuallyRemoved ==
    \A id \in ReqIds :
        (id \in DOMAIN runningQueries) ~> (id \notin DOMAIN runningQueries)

\* C28 witness: a record is registered and its call is in the driver,
\* cancelled and yet to return.
C28_Witness ==
    \E t \in Tasks :
        /\ pc[t] = "eq_wait"
        /\ req[t].id \in DOMAIN runningQueries
        /\ runningQueries[req[t].id].cancel = t
        /\ t \in cancelled

\* The SQL of the call of task t has been issued to the driver and the
\* call has not returned.
Issued(t) == pc[t] \in {"eq_wait", "eq_next", "eq_rowcheck"}

\* The record under the request id of task t is the one its call
\* registered.
OwnRecord(t) ==
    /\ req[t].id \in DOMAIN runningQueries
    /\ runningQueries[req[t].id].cancel = t

\* Task c processes its cancelQuery in this step.
CancelProcessed(c) == pc[c] = "cancelQuery" /\ pc'[c] # pc[c]

---------------------------------------------------------------------------
(* Properties of cache writes. *)

\* C30: the cache changes only in the store step of a call whose backend
\* fetch has succeeded; a listDatabases or listTables that fails (unknown
\* connection, backend error) leaves it as it was; and a store for a key
\* that has an entry replaces the entry by the value just fetched, stamped
\* with the time of the store, so that a hit from then on returns that
\* value and the entry's age, which the lifetime bounds, is 0 again.
C30_CacheWrittenAfterFetch ==
    [][/\ cache' # cache => \E t \in Tasks : pc[t] \in StorePlaces /\ pc'[t] = "idle"
       /\ \A t \in Tasks :
            LET k == cacheKey(req[t]) IN
            /\ (pc'[t] \in StorePlaces /\ pc[t] \notin StorePlaces) =>
                    /\ pc[t] \in {"ld_fetch", "lt_fetch", "la_fetch"}
                    /\ handles[loc[t].h].open
                    /\ cache' = cache
            /\ (req[t].method \in {"listDatabases", "listTables"}
                 /\ pc'[t] = "idle" /\ pc[t] # "idle" /\ out'.kind = "error") =>
                    /\ out'.message \in {"connection not found",
                                         "failed to list databases",
                                         "failed to list tables"}
                    /\ cache' = cache
            /\ (pc[t] \in StorePlaces /\ pc'[t] # pc[t]) =>
                    /\ cache' = Put(cache, k,
                                    [data |-> loc[t].data, timestamp |-> now,
                                     ttl |-> cache'[k].ttl])
                    /\ cache'[k].data = loc[t].data
                    /\ now' - cache'[k].timestamp = 0]_vars

\* C30 witness: a fetch has succeeded for a key whose entry holds another
\* value, stored at an earlier time, which the store is about to replace.
C30_Witness ==
    \E t \in Tasks :
        /\ pc[t] \in {"ld_store", "lt_store"}
        /\ cacheKey(req[t]) \in DOMAIN cache
        /\ cache[cacheKey(req[t])].data # loc[t].data
        /\ cache[cacheKey(req[t])].timestamp < now

---------------------------------------------------------------------------
(* The cache map across connect, disconnect and the listings, with the    *)
(* clock advancing.                                                        *)

ReceiveEvict ==
    Receive({"connect", "disconnect", "listDatabases", "listTables"},
            MaxRequests)

NextEvict ==
    \/ ReceiveEvict
    \/ Tick
    \/ \E t \in Tasks :
        \/ ConnectOpen(t)
        \/ ConnectRegister(t)
        \/ Disconnect(t)
        \/ ListDatabasesBegin(t)
        \/ ListDatabasesFetch(t)
        \/ ListDatabasesStore(t)
        \/ ListTablesBegin(t)
        \/ ListTablesFetch(t)
        \/ ListTablesStore(t)

SpecEvict == Init /\ [][NextEvict]_vars

\* The entry under key k is past its lifetime: getFromCache rejects it.
Expired(k) == k \in DOMAIN cache /\ ~getFromCache(k).ok

\* C31: no step of any handler removes a key from the cache map: the set of
\* keys never shrinks, whatever connect, disconnect, the listings and the
\* clock do; an entry, expired or not, stays as it is until a listing
\* overwrites it with a fresh one.
C31_CacheKeysNeverShrink ==
    [][/\ DOMAIN cache \subseteq DOMAIN cache'
       /\ \A k \in DOMAIN cache :
            \/ cache'[k] = cache[k]
            \/ cache'[k].timestamp = now']_vars

\* An expired entry is still in the map after its connection went away.
C31_Witness ==
    /\ connections = EmptyMap
    /\ \E h \in DOMAIN handles : ~handles[h].open
    /\ \E k \in DOMAIN cache : Expired(k)

---------------------------------------------------------------------------
(* NewConnection's classification of the error db.Ping returns, on the    *)
(* error's text.                                                           *)

\* The longest chain of errors wrapped into one ping error.
MaxFragments == 2

\* strings.Contains(s, substr)
Contains(s, substr) ==
    \E i \in 1..(Len(s) - Len(substr) + 1) :
        SubSeq(s, i, i + Len(substr) - 1) = substr

\* What the driver and the network put into an error text.
Fragments == {"connect: connection refused", "Access denied for user",
              "Unknown database", "i/o timeout", "access denied",
              "invalid connection"}

\* err.Error(): the texts of the wrapped errors joined by ": ".
RECURSIVE ErrorTexts(_)
ErrorTexts(n) ==
    IF n = 1 THEN Fragments
    ELSE ErrorTexts(n - 1)
         \cup {e \o ": " \o f : e \in ErrorTexts(n - 1), f \in Fragments}

\* protocol.ConnectionConfig as json.Unmarshal fills it.
ConnectionConfigs ==
    {[Host |-> h, Port |-> 3306, Username |-> "root", Database |-> d] :
        h \in {"localhost", "db.example"}, d \in {"app", ""}}

ConnectRequests ==
    {[Request("connect", "r0", "c1", "", "") EXCEPT !.params = c] :
        c \in ConnectionConfigs}

\* host := config.Host; if host == "localhost" { host = "127.0.0.1" }
DialHost(config) == IF config.Host = "localhost" THEN "127.0.0.1" ELSE config.Host

\* PingError that looks for a timeout first.
PingErrorTimeoutFirst(errMsg, config) ==
    IF Contains(errMsg, "timeout")
    THEN "connection timeout: could not reach " \o DialHost(config) \o ":"
         \o FormatInt(config.Port)
         \o " within 30 seconds. Check network connectivity"
    ELSE IF Contains(errMsg, "connection refused")
    THEN "connection refused: MySQL server is not running on "
         \o DialHost(config) \o ":" \o FormatInt(config.Port)
         \o ", or the port is blocked by a firewall"
    ELSE IF Contains(errMsg, "Access denied")
    THEN "access denied: incorrect username '" \o config.Username
         \o "' or password. Check your credentials"
    ELSE IF Contains(errMsg, "Unknown database")
    THEN "unknown database '" \o config.Database
         \o "': the database does not exist. Create it first or use a different database name"
    ELSE "failed to connect to database: " \o errMsg

\* The error NewConnection returns for the ping error with text errMsg:
\* the if / else-if chain of strings.Contains, then
\* fmt.Errorf("failed to connect to database: %w", err).
PingError(errMsg, config) ==
    IF Contains(errMsg, "connection refused")
    THEN "connection refused: MySQL server is not running on "
         \o DialHost(config) \o ":" \o FormatInt(config.Port)
         \o ", or the port is blocked by a firewall"
    ELSE IF Contains(errMsg, "Access denied")
    THEN "access denied: incorrect username '" \o config.Username
         \o "' or password. Check your credentials"
    ELSE IF Contains(errMsg, "Unknown database")
    THEN "unknown database '" \o config.Database
         \o "': the database does not exist. Create it first or use a different database name"
    ELSE IF Contains(errMsg, "timeout")
    THEN "connection timeout: could not reach " \o DialHost(config) \o ":"
         \o FormatInt(config.Port)
         \o " within 30 seconds. Check network connectivity"
    ELSE "failed to connect to database: " \o errMsg

\* db.Ping() returns an error with one of the texts; db.Close().
PingFails(t) ==
    /\ pc[t] = "nc_ping"
    /\ handles' = [handles EXCEPT ![loc[t].h].open = FALSE]
    /\ \E e \in ErrorTexts(MaxFragments) :
        /\ pc' = [pc EXCEPT ![t] = "nc_classify"]
        /\ loc' = [loc EXCEPT ![t] = [h |-> loc[t].h, errMsg |-> e]]
    /\ UNCHANGED <<nreq, req, out, connections, cache, runningQueries,
                   cancelled, clock, loop, locking, frontend>>

\* NewConnection returns the classified error, which handleConnect
\* returns and HandleRequest makes the response's error.
PingClassify(t) ==
    /\ pc[t] = "nc_classify"
    /\ Return(t, Error(PingError(loc[t].errMsg, req[t].params), loc[t].errMsg))
    /\ UNCHANGED <<nreq, shared, clock>>

NextClassify == \E t \in Tasks : PingFails(t) \/ PingClassify(t)

\* A connect whose handle exists and is about to be pinged; the handle is
\* not registered yet.
InitPing ==
    /\ nreq = 1
    /\ pc = [t \in Tasks |-> IF t = 1 THEN "nc_ping" ELSE "idle"]
    /\ \E r \in ConnectRequests :
        req = [t \in Tasks |-> IF t = 1 THEN r ELSE NoRequest]
    /\ loc = [t \in Tasks |-> IF t = 1 THEN [NoLocals EXCEPT !.h = 1] ELSE NoLocals]
    /\ out = NoResponse
    /\ connections = EmptyMap
    /\ handles = <<[id |-> "c1", open |-> TRUE]>>
    /\ cache = EmptyMap
    /\ runningQueries = EmptyMap
    /\ cancelled = {}
    /\ now = 0
    /\ ticks = 0
    /\ main = "scan"
    /\ resp = [w \in Writers |-> NoLine]
    /\ writeMutex = NoWriter
    /\ writer = <<>>
    /\ stdout = <<>>
    /\ locks = [l \in Locks |-> Unlocked]
    /\ script = [t \in Tasks |-> <<>>]
    /\ ClientInit

SpecClassify == InitPing /\ [][NextClassify]_vars

\* The rules in their order: what the error text must contain, and how the
\* message of the rule begins.
ClassificationRules ==
    <<<<"connection refused", "connection refused: ">>,
      <<"Access denied", "access denied: ">>,
      <<"Unknown database", "unknown database '">>,
      <<"timeout", "connection timeout: ">>>>

GenericPrefix == "failed to connect to database: "

\* The five ways the message of a failed ping begins.
MessagePrefixes ==
    {ClassificationRules[i][2] : i \in DOMAIN ClassificationRules}
    \cup {GenericPrefix}

\* The rules whose substring the text e contains.
Matching(e) ==
    {i \in DOMAIN ClassificationRules : Contains(e, ClassificationRules[i][1])}

\* The connect of the response out failed in its ping.
PingFailed == out.req.method = "connect" /\ out.kind = "error"

\* C32: the error of a failed ping is chosen by the first rule, in the order
\* refused, access denied, unknown database, timeout, whose substring the
\* ping's error text contains; when no rule matches it is the generic
\* "failed to connect to database: " followed by the whole original text;
\* the message begins in exactly one of the five ways.
C32_FirstMatchingRule ==
    PingFailed =>
        LET e == out.cause
            m == out.message
            first == CHOOSE i \in Matching(e) : \A j \in Matching(e) : i <= j
        IN /\ Matching(e) # {} => HasPrefix(m, ClassificationRules[first][2])
           /\ Matching(e) = {} => m = GenericPrefix \o e
           /\ Cardinality({p \in MessagePrefixes : HasPrefix(m, p)}) = 1

\* The error text of a failed ping matches two rules, the later one first
\* in the text, and the connect has been answered.
C32_Witness ==
    /\ PingFailed
    /\ Cardinality(Matching(out.cause)) >= 2
    /\ HasPrefix(out.cause, "i/o timeout")
    /\ out.req.params.Host = "localhost"

---------------------------------------------------------------------------
\* C33: every executeQuery call that has registered and has not returned
\* has, under its request id, a record in the running-query registry whose
\* cancel function is that call's own, also while another executeQuery
\* call with the same request id is in flight.
C33_RegisteredCallCancellable ==
    \A t \in Tasks : Executing(t) => OwnRecord(t)

---------------------------------------------------------------------------
\* The places where a handler is in, or about to start, a database
\* operation on the handle its getConnection returned.
OperationPlaces ==
    {"health_ping", "columns_query", "ld_fetch", "lt_fetch", "la_fetch",
     "eq_precheck", "eq_wait", "eq_next", "eq_rowcheck"}

\* C34: the handle a handler obtained from the registry stays open while
\* the handler's operation on it (health check, listing, query, row fetch)
\* is in progress: no disconnect and no replacing connect closes it.
C34_HandleOpenDuringOperation ==
    \A t \in Tasks : pc[t] \in OperationPlaces => handles[loc[t].h].open

---------------------------------------------------------------------------
\* The places of a connect, disconnect or testConnection call in progress.
HandleCallPlaces ==
    {"connect", "nc_ping", "connect_register", "disconnect",
     "testConnection", "test_version"}

\* The handles the registry holds.
RegisteredHandles == {connections[id] : id \in DOMAIN connections}

\* C35: while the process runs and no connect, disconnect or testConnection
\* call is in progress, the open handles are exactly the registered ones:
\* connects of one id, however interleaved, leave one open handle, and
\* testConnection leaves its handle closed and unregistered.
C35_NoHandleLeak ==
    (Running /\ \A t \in Tasks : pc[t] \notin HandleCallPlaces)
        => OpenHandles = RegisteredHandles

\* Three calls have each opened a handle and returned, the last answered
\* a testConnection; the handle opened first was registered last and is
\* the only one open.
C35_Witness ==
    /\ Running /\ \A t \in Tasks : pc[t] = "idle"
    /\ Len(handles) = 3
    /\ connections = [id \in {"c1"} |-> 1]
    /\ OpenHandles = {1}
    /\ out.req.method = "testConnection"

---------------------------------------------------------------------------
(* Reconnecting: every connect may name another server (another host,     *)
(* port or database in its descriptor), so what a handle lists is its own *)
(* server's content.                                                       *)

\* The content of the server behind handle h.
SnapshotOf(h) == "s" \o ToString(h)

\* conn.ListDatabases on the handle getConnection returned.
ListDatabasesFetchOwn(t) ==
    /\ pc[t] = "ld_fetch"
    /\ \/ Return(t, Error("failed to list databases", "driver"))
       \/ /\ handles[loc[t].h].open
          /\ Goto(t, "ld_store",
                  [loc[t] EXCEPT !.data = {<<"databases", SnapshotOf(loc[t].h)>>}])
    /\ UNCHANGED <<nreq, shared, clock>>

ReceiveReconnect ==
    Receive({"connect", "disconnect", "listDatabases"}, MaxHandleRequests)

NextReconnect ==
    \/ ReceiveReconnect
    \/ \E t \in Tasks :
        \/ ConnectOpen(t)
        \/ ConnectRegister(t)
        \/ Disconnect(t)
        \/ ListDatabasesBegin(t)
        \/ ListDatabasesFetchOwn(t)
        \/ ListDatabasesStore(t)

SpecReconnect == Init /\ [][NextReconnect]_vars

\* C36: a listing answered from the cache for a connection id that has a
\* registered handle is what was fetched through that handle, not through
\* a handle the id had before a reconnect.
C36_CachedListingFromRegisteredHandle ==
    [][\A t \in Tasks :
        (/\ pc[t] = "listDatabases" /\ pc'[t] = "idle"
         /\ out'.from = "cache"
         /\ req[t].connectionId \in DOMAIN connections)
        => out'.data = {<<"databases",
                          SnapshotOf(connections[req[t].connectionId])>>}]_vars

---------------------------------------------------------------------------
\* Task c takes a step of its cancelQuery.
CancelStep(c) == pc[c] \in {"cancelQuery", "cancel_signal"} /\ pc'[c] # pc[c]

\* The answer to the cancelQuery of task c is success.
CancelSucceeds(c) ==
    /\ pc[c] = "cancel_signal" /\ pc'[c] = "idle"
    /\ out' = Response(req[c], Result("success", 0))

---------------------------------------------------------------------------
\* C38: a task that is in a blocking database call (dial, ping, query, row
\* fetch, closing a handle) holds none of the three locks, so the call
\* keeps no other task from the registry.
C38_NoLockHeldDuringCall ==
    \A t \in Tasks : At(t, "call") => Held(t) = {}

---------------------------------------------------------------------------
(* BackendClient: requests written to the backend's stdin, responses read *)
(* from its stdout, one promise per request that expects an answer.  The   *)
(* backend answers each request line it has read with one line that       *)
(* carries the request's id.                                               *)

\* The requests the client sends before it is disposed of.
MaxClientRequests == 3

\* What the server leaves unchanged here.
backend == <<nreq, pc, req, loc, out, shared, clock, loop, locking>>

\* const id = (++this.requestIdCounter).toString()
NextId == FormatInt(requestIdCounter + 1)

\* resolve or reject of the promise of request id: a promise that is
\* settled stays as it is.
Settle(P, id, how) ==
    IF P[id] = "pending" THEN [P EXCEPT ![id] = how] ELSE P

\* The request is numbered, its resolve and reject are stored under the id
\* and the line is handed to stdin.write.
Send(method) ==
    /\ process = "running"
    /\ requestIdCounter < MaxClientRequests
    /\ requestIdCounter' = requestIdCounter + 1
    /\ pendingRequests' = pendingRequests \cup {NextId}
    /\ promises' = Put(promises, NextId, "pending")
    /\ writing' = writing \cup {<<NextId, method>>}
    /\ UNCHANGED <<process, child, inbox, pipe, backend>>

sendRequest == \E method \in {"ping", "connect"} : Send(method)

sendCancellableRequest == Send("executeQuery")

\* cancelQuery: a numbered request is written; nothing is stored for its
\* answer.
cancelQuery ==
    /\ process = "running"
    /\ requestIdCounter < MaxClientRequests
    /\ requestIdCounter' = requestIdCounter + 1
    /\ writing' = writing \cup {<<NextId, "cancelQuery">>}
    /\ UNCHANGED <<process, child, pendingRequests, promises, inbox, pipe, backend>>

\* The write has reached the backend; the callback gets no error.
WriteDone ==
    /\ child = "alive"
    /\ \E w \in writing :
        /\ writing' = writing \ {w}
        /\ inbox' = inbox \cup {w}
    /\ UNCHANGED <<process, child, requestIdCounter, pendingRequests, promises,
                   pipe, backend>>

\* The write fails because the backend has ended; the callback of
\* sendRequest deletes the entry and rejects, that of cancelQuery logs.
WriteFails ==
    /\ child # "alive"
    /\ \E w \in writing :
        /\ writing' = writing \ {w}
        /\ IF w[2] = "cancelQuery"
           THEN UNCHANGED <<pendingRequests, promises>>
           ELSE /\ pendingRequests' = pendingRequests \ {w[1]}
                /\ promises' = Settle(promises, w[1], "rejected")
    /\ UNCHANGED <<process, child, requestIdCounter, inbox, pipe, backend>>

\* The goroutine of a request writes its response line: sendResponse with
\* the request's id, a result or an error.
BackendResponds ==
    /\ child = "alive"
    /\ \E r \in inbox, kind \in {"result", "error"} :
        /\ inbox' = inbox \ {r}
        /\ pipe' = pipe \cup {<<r[1], kind>>}
    /\ UNCHANGED <<process, child, requestIdCounter, pendingRequests, promises,
                   writing, backend>>

\* handleResponse that keeps the entry of the request it answers.
handleResponseKeep ==
    /\ \E line \in pipe :
        /\ pipe' = pipe \ {line}
        /\ pendingRequests' = pendingRequests
        /\ IF line[1] \notin pendingRequests
           THEN UNCHANGED promises
           ELSE promises' = Settle(promises, line[1],
                                   IF line[2] = "error" THEN "rejected"
                                                        ELSE "resolved")
    /\ UNCHANGED <<process, child, requestIdCounter, writing, inbox, backend>>

\* handleResponse: pending = pendingRequests.get(response.id); without it
\* the line is logged; otherwise the entry is deleted and the promise is
\* rejected for an error, resolved for a result.
handleResponse ==
    /\ \E line \in pipe :
        /\ pipe' = pipe \ {line}
        /\ IF line[1] \notin pendingRequests
           THEN UNCHANGED <<pendingRequests, promises>>
           ELSE /\ pendingRequests' = pendingRequests \ {line[1]}
                /\ promises' = Settle(promises, line[1],
                                      IF line[2] = "error" THEN "rejected"
                                                           ELSE "resolved")
    /\ UNCHANGED <<process, child, requestIdCounter, writing, inbox, backend>>

\* The backend process ends; the client has not been told yet.
ChildEnds ==
    /\ child = "alive"
    /\ child' = "dead"
    /\ inbox' = {}
    /\ UNCHANGED <<process, requestIdCounter, pendingRequests, promises,
                   writing, pipe, backend>>

\* stop(): this.process.kill(); this.process = null
stop ==
    /\ process = "running"
    /\ process' = "null"
    /\ child' = IF child = "alive" THEN "dead" ELSE child
    /\ inbox' = IF child = "alive" THEN {} ELSE inbox
    /\ UNCHANGED <<requestIdCounter, pendingRequests, promises, writing, pipe,
                   backend>>

\* process.on('exit'): this.process = null; every pending request is
\* rejected; pendingRequests.clear()
OnExit ==
    /\ child = "dead"
    /\ child' = "exited"
    /\ process' = "null"
    /\ promises' = [id \in DOMAIN promises |->
                      IF id \in pendingRequests
                      THEN Settle(promises, id, "rejected")[id]
                      ELSE promises[id]]
    /\ pendingRequests' = {}
    /\ UNCHANGED <<requestIdCounter, writing, inbox, pipe, backend>>

NextClient ==
    \/ sendRequest
    \/ sendCancellableRequest
    \/ cancelQuery
    \/ WriteDone
    \/ WriteFails
    \/ BackendResponds
    \/ handleResponse
    \/ ChildEnds
    \/ stop
    \/ OnExit

SpecClient == Init /\ [][NextClient]_vars

\* The ids the client has given to requests so far.
UsedIds == {FormatInt(n) : n \in 1..requestIdCounter}

\* The response line for id with this kind is read in this step.
Reads(id, kind) == <<id, kind>> \in pipe /\ <<id, kind>> \notin pipe'

\* C39: a promise that is settled stays as it is; a request id has an
\* entry in pendingRequests exactly while its promise is pending; a promise
\* is resolved only by the result line with its id, and rejected only by
\* the error line with its id, by the failure of its write or by the exit
\* handler, which empties the map; every request gets an id no earlier
\* request had; and a response line whose id has no entry (a cancelQuery's
\* answer) changes neither the map nor any promise.
C39_PromiseSettledOnce ==
    [][/\ \A id \in DOMAIN promises :
            /\ promises[id] # "pending" => promises'[id] = promises[id]
            /\ (promises[id] = "pending" /\ promises'[id] = "resolved")
                    => Reads(id, "result")
            /\ (promises[id] = "pending" /\ promises'[id] = "rejected")
                    => \/ Reads(id, "error")
                       \/ \E w \in writing \ writing' : w[1] = id
                       \/ child = "dead" /\ child' = "exited"
                                         /\ pendingRequests' = {}
       /\ pendingRequests' = {id \in DOMAIN promises' : promises'[id] = "pending"}
       /\ \A w \in writing' \ writing : w[1] \notin UsedIds
       /\ \A line \in pipe \ pipe' :
            line[1] \notin pendingRequests
                => promises' = promises /\ pendingRequests' = pendingRequests]_vars

\* C39 witness: the backend has exited; one request was resolved by its
\* response, another was rejected, the third was a cancelQuery, whose
\* answer has been read, and the map is empty.
C39_Witness ==
    /\ child = "exited" /\ pendingRequests = {}
    /\ requestIdCounter = 3 /\ Cardinality(DOMAIN promises) = 2
    /\ \E id \in DOMAIN promises : promises[id] = "resolved"
    /\ \E id \in DOMAIN promises : promises[id] = "rejected"
    /\ writing = {} /\ pipe = {}
====
